---- MODULE Spec2Model ----
(***************************************************************************)
(* Model of graphql-google-pubsub: the GooglePubSub engine                 *)
(* (src/src/google-pubsub.ts, lines 11-125) and the PubSubAsyncIterator    *)
(* bridge (same file, lines 139-214).                                      *)
(*                                                                         *)
(* JavaScript runs one job at a time, so every action below is one        *)
(* synchronous stretch of code: a public call up to its first await, or   *)
(* the continuation that runs after an awaited promise settles.           *)
(***************************************************************************)
EXTENDS Integers, Sequences, FiniteSets, TLC

(* ------------------------------ bounds -------------------------------- *)

\* subscribe calls issued on the engine (listener ids are 0 .. MaxSubscribes-1)
MaxSubscribes == 3

\* invocations of message handlers by the broker, with direct subscribers
MaxMessages == 1

\* invocations of message handlers by the broker, with a bridge
MaxBridgeMessages == 2

\* next() and return() calls made on the bridge
MaxNexts == 2

MaxReturns == 1

\* throw() calls made on the bridge
MaxThrows == 1

\* next() calls and handler invocations when the consumer closes the bridge
\* with return() and throw()
MaxCloseNexts == 1

MaxCloseMessages == 1

\* subscribe calls and handler invocations when the broker and the transform
\* may fail and listeners of two names coexist
MaxListeners == 2

MaxDispatches == 2

\* publish calls
MaxPublishes == 1

\* error events emitted by the broker's subscriptions
MaxErrors == 1

(* ----------------------------- constants ------------------------------ *)

\* JavaScript's undefined, for the optional fields of GoogleSubAndClientIds
Undefined == -1

Topics == {"Posts", "Times"}

\* constructor default: topicName => `${topicName}-subscription`
topic2SubName(topicName) ==
  CASE topicName = "Posts" -> "Posts-subscription"
    [] topicName = "Times" -> "Times-subscription"

SubNames == {topic2SubName(t) : t \in Topics}

\* the injected transform: what every listener of a message receives
commonMessageHandler(message) == [transformed |-> message]

\* `this.googleSubName2GoogleSubAndClientIds[subName] || {}` read with
\* `ids: oldIds = []`: the fields of an entry that does not exist
NoEntry == [ids |-> <<>>, sub |-> Undefined, messageHandler |-> Undefined,
            errorHandler |-> Undefined]

VARIABLES
  clientId2GoogleSubNameAndClientCallback, \* id -> [subName, onMessage]
  googleSubName2GoogleSubAndClientIds,     \* subName -> [ids, sub, messageHandler, errorHandler]
  currentClientId,
  roundTrips,      \* id -> [topicName, subName, phase]: getSubscription calls in flight
  subscribeResult, \* id -> "pending" | "resolved" | "TypeError": the promise subscribe returned
  listeners,       \* the broker handles' attached listeners: [subName, sub, event, handler]
  subCalls,        \* log of sub.on / sub.removeListener calls
  publishCalls,    \* log of topic(topicName).publish(bytes, attributes) calls
  consoleErrors,   \* log of console.error calls
  messageCount,    \* handler invocations so far
  acks,            \* message.ack() calls, per message
  transforms,      \* commonMessageHandler calls, per message
  handlerCalls,    \* per message: the calls handleMessage made for it, in call order, as
                   \* message.ack, the transform and the subscribers' spies saw them
  inflight,        \* handleMessage calls awaiting the transform: [subName, message, res]
  onMessageCalls,  \* id -> the payloads its delivery callback was called with
  dispatches,      \* message -> "pending" | "fulfilled" | "rejected": the promise
                   \* that handleMessage returned for it
  lastOp,          \* the operation that produced this state, and how it ended
  \* the PubSubAsyncIterator, when one has been constructed
  eventsArray,
  allSubscribed,   \* "none" (no iterator) | "pending" | "resolved" | "rejected"
  subscriptionIds, \* the ids allSubscribed resolves to
  listening,
  pullQueue,       \* the next() calls waiting for a value, by call number
  pushQueue,
  thenQueue,       \* the callbacks given to allSubscribed.then, in call order
  nextCalls,       \* per next() call: how its promise stands
  returnCalls,     \* per return() call: how its promise stands
  throwCalls,      \* per throw() call: how its promise stands
  pushLog          \* the values pushValue was called with, in call order

bridgeVars == <<eventsArray, allSubscribed, subscriptionIds, listening, pullQueue,
                pushQueue, thenQueue, nextCalls, returnCalls, throwCalls, pushLog>>

vars == <<clientId2GoogleSubNameAndClientCallback, googleSubName2GoogleSubAndClientIds,
          currentClientId, roundTrips, subscribeResult, listeners, subCalls,
          publishCalls, consoleErrors, messageCount, acks, transforms, handlerCalls, inflight,
          onMessageCalls,
          dispatches, lastOp,
          bridgeVars>>

\* what subscribe, its continuation and unsubscribe read and write
engineVars == <<clientId2GoogleSubNameAndClientCallback,
                googleSubName2GoogleSubAndClientIds, currentClientId,
                roundTrips, subscribeResult, listeners, subCalls, publishCalls,
                consoleErrors>>

messageVars == <<messageCount, acks, transforms, handlerCalls, inflight, onMessageCalls,
                 dispatches>>

(* ------------------------------ helpers ------------------------------- *)

Range(seq) == {seq[i] : i \in 1..Len(seq)}

Op(op, id, outcome) == [op |-> op, id |-> id, outcome |-> outcome]

\* one call made while a message is handled: message.ack(), the transform, or
\* the delivery callback that listener id subscribed with
Call(fn, id) == [fn |-> fn, id |-> id]

\* delete obj[key]
Delete(f, key) == [k \in DOMAIN f \ {key} |-> f[k]]

\* obj[key] = value
Put(f, key, value) == [k \in DOMAIN f \cup {key} |-> IF k = key THEN value ELSE f[k]]

\* ids.indexOf(subId), 0-based, -1 when absent
IndexOf(ids, subId) ==
  IF \E i \in 1..Len(ids) : ids[i] = subId
    THEN (CHOOSE i \in 1..Len(ids) : ids[i] = subId /\ \A j \in 1..(i-1) : ids[j] # subId) - 1
    ELSE -1

\* WithoutIndex with `ids.slice(index)` for `ids.slice(index + 1)`
WithoutIndex_OffByOne(ids, index) ==
  SubSeq(ids, 1, index) \o SubSeq(ids, index + 1, Len(ids))

\* [...ids.slice(0, index), ...ids.slice(index + 1)]
WithoutIndex(ids, index) ==
  SubSeq(ids, 1, index) \o SubSeq(ids, index + 2, Len(ids))

\* the ids of every entry, whatever the name asked for
IdsOf_EveryName(subName) ==
  (IF "Posts-subscription" \in DOMAIN googleSubName2GoogleSubAndClientIds
     THEN googleSubName2GoogleSubAndClientIds["Posts-subscription"].ids ELSE <<>>)
  \o (IF "Times-subscription" \in DOMAIN googleSubName2GoogleSubAndClientIds
        THEN googleSubName2GoogleSubAndClientIds["Times-subscription"].ids ELSE <<>>)

\* the ids of the entry of subName, [] when the entry does not exist
IdsOf(subName) ==
  IF subName \in DOMAIN googleSubName2GoogleSubAndClientIds
    THEN googleSubName2GoogleSubAndClientIds[subName].ids
    ELSE <<>>

\* the engine and the broker handles as one value E, so that code that makes
\* several engine calls in one synchronous stretch composes them; E.thrown is
\* the exception the last call raised ("" for none)
Engine ==
  [clientId2GoogleSubNameAndClientCallback |-> clientId2GoogleSubNameAndClientCallback,
   googleSubName2GoogleSubAndClientIds |-> googleSubName2GoogleSubAndClientIds,
   currentClientId |-> currentClientId,
   roundTrips |-> roundTrips,
   subscribeResult |-> subscribeResult,
   listeners |-> listeners,
   subCalls |-> subCalls,
   publishCalls |-> publishCalls,
   consoleErrors |-> consoleErrors,
   thrown |-> ""]

SetEngine(E) ==
  /\ clientId2GoogleSubNameAndClientCallback' = E.clientId2GoogleSubNameAndClientCallback
  /\ googleSubName2GoogleSubAndClientIds' = E.googleSubName2GoogleSubAndClientIds
  /\ currentClientId' = E.currentClientId
  /\ roundTrips' = E.roundTrips
  /\ subscribeResult' = E.subscribeResult
  /\ listeners' = E.listeners
  /\ subCalls' = E.subCalls
  /\ publishCalls' = E.publishCalls
  /\ consoleErrors' = E.consoleErrors

OnCall(sub, event, handler, subName) ==
  [call |-> "on", sub |-> sub, event |-> event, handler |-> handler, subName |-> subName]

RemoveListenerCall(sub, event, handler, subName) ==
  [call |-> "removeListener", sub |-> sub, event |-> event, handler |-> handler,
   subName |-> subName]

Listener(sub, event, handler, subName) ==
  [sub |-> sub, event |-> event, handler |-> handler, subName |-> subName]

(* ------------------------------- Init --------------------------------- *)

Init ==
  /\ clientId2GoogleSubNameAndClientCallback = <<>>
  /\ googleSubName2GoogleSubAndClientIds = <<>>
  /\ currentClientId = 0
  /\ roundTrips = <<>>
  /\ subscribeResult = <<>>
  /\ listeners = {}
  /\ subCalls = <<>>
  /\ publishCalls = <<>>
  /\ consoleErrors = <<>>
  /\ messageCount = 0
  /\ acks = <<>>
  /\ transforms = <<>>
  /\ handlerCalls = <<>>
  /\ inflight = {}
  /\ onMessageCalls = <<>>
  /\ dispatches = <<>>
  /\ lastOp = Op("constructor", Undefined, "ok")
  /\ eventsArray = <<>>
  /\ allSubscribed = "none"
  /\ subscriptionIds = <<>>
  /\ listening = FALSE
  /\ pullQueue = <<>>
  /\ pushQueue = <<>>
  /\ thenQueue = <<>>
  /\ nextCalls = <<>>
  /\ returnCalls = <<>>
  /\ throwCalls = <<>>
  /\ pushLog = <<>>

(* ------------------------- GooglePubSub.publish ----------------------- *)

\* JavaScript values given as `data`; a string is a sequence of characters,
\* each written as a one-character string ("U+00E9" is the letter e-acute)
Str(text) == [type |-> "string", text |-> text, number |-> 0, fields |-> <<>>]
Num(n) == [type |-> "number", text |-> <<>>, number |-> n, fields |-> <<>>]
True == [type |-> "boolean", text |-> <<>>, number |-> 1, fields |-> <<>>]
False == [type |-> "boolean", text |-> <<>>, number |-> 0, fields |-> <<>>]
Null == [type |-> "null", text |-> <<>>, number |-> 0, fields |-> <<>>]
Obj(fields) == [type |-> "object", text |-> <<>>, number |-> 0, fields |-> fields]
Field(key, value) == [key |-> key, value |-> value]

\* JSON.stringify of a string: quoted, with quotes and backslashes escaped
RECURSIVE Escape(_)
Escape(text) ==
  IF text = <<>> THEN <<>>
  ELSE (IF Head(text) \in {"\"", "\\"} THEN <<"\\", Head(text)>> ELSE <<Head(text)>>)
       \o Escape(Tail(text))

Quote(text) == <<"\"">> \o Escape(text) \o <<"\"">>

\* JSON.stringify of an integer
RECURSIVE Digits(_)
Digits(n) ==
  LET digit(d) == <<"0", "1", "2", "3", "4", "5", "6", "7", "8", "9">>[d + 1]
  IN IF n < 0 THEN <<"-">> \o Digits(0 - n)
     ELSE IF n < 10 THEN <<digit(n)>>
     ELSE Digits(n \div 10) \o <<digit(n % 10)>>

\* line 28, JSON.stringify(data)
RECURSIVE JSONStringify(_)
JSONStringify(value) ==
  LET RECURSIVE Members(_)
      Members(fields) ==
        IF fields = <<>> THEN <<>>
        ELSE Quote(Head(fields).key) \o <<":">> \o JSONStringify(Head(fields).value)
             \o (IF Tail(fields) = <<>> THEN <<>> ELSE <<",">>)
             \o Members(Tail(fields))
  IN CASE value.type = "string" -> Quote(value.text)
       [] value.type = "number" -> Digits(value.number)
       [] value.type = "boolean" ->
            IF value.number = 1 THEN <<"t", "r", "u", "e">>
            ELSE <<"f", "a", "l", "s", "e">>
       [] value.type = "null" -> <<"n", "u", "l", "l">>
       [] value.type = "object" -> <<"{">> \o Members(value.fields) \o <<"}">>

\* the characters of the model that UTF-8 encodes in one byte, and their bytes
AsciiChars == <<"\"", ",", "-", "0", "1", "2", "3", "4", "5", "6", "7", "8", "9",
                ":", "\\", "a", "d", "e", "f", "l", "n", "o", "r", "s", "t", "u",
                "w", "{", "}">>
AsciiCodes == <<34, 44, 45, 48, 49, 50, 51, 52, 53, 54, 55, 56, 57,
                58, 92, 97, 100, 101, 102, 108, 110, 111, 114, 115, 116, 117,
                119, 123, 125>>

\* line 32, Buffer.from(data): the UTF-8 bytes of a string
RECURSIVE BufferFrom(_)
BufferFrom(text) ==
  IF text = <<>> THEN <<>>
  ELSE (IF Head(text) = "U+00E9" THEN <<195, 169>>
        ELSE <<AsciiCodes[CHOOSE i \in 1..Len(AsciiChars) : AsciiChars[i] = Head(text)]>>)
       \o BufferFrom(Tail(text))

\* publish as it would be if it serialized strings as well
publishIn_AlwaysStringify(E, topicName, data, attributes) ==
  [E EXCEPT !.publishCalls =
     Append(@, [topic |-> topicName, data |-> BufferFrom(JSONStringify(data)),
                attributes |-> attributes])]

\* lines 26-33
publishIn(E, topicName, data, attributes) ==
  LET text == IF data.type # "string" THEN JSONStringify(data) ELSE data.text
  IN [E EXCEPT !.publishCalls =
        Append(@, [topic |-> topicName, data |-> BufferFrom(text),
                   attributes |-> attributes])]

publish(topicName, data, attributes) ==
  /\ Len(publishCalls) < MaxPublishes
  /\ SetEngine(publishIn(Engine, topicName, data, attributes))
  /\ lastOp' = Op("publish", Undefined, "ok")
  /\ UNCHANGED <<messageVars, bridgeVars>>

(* ------------------------ GooglePubSub.subscribe ---------------------- *)

\* subscribe as it would be if every call started its own round trip
subscribeIn_AlwaysRoundTrip(E, topicName, onMessage) ==
  LET subName == topic2SubName(topicName)
      id == E.currentClientId
      old == IF subName \in DOMAIN E.googleSubName2GoogleSubAndClientIds
               THEN E.googleSubName2GoogleSubAndClientIds[subName]
               ELSE NoEntry
  IN [E EXCEPT
        !.currentClientId = id + 1,
        !.clientId2GoogleSubNameAndClientCallback =
           Put(@, id, [subName |-> subName, onMessage |-> onMessage]),
        !.googleSubName2GoogleSubAndClientIds =
           Put(@, subName, [old EXCEPT !.ids = Append(old.ids, id)]),
        !.subscribeResult = Put(@, id, "pending"),
        !.roundTrips = Put(@, id, [topicName |-> topicName, subName |-> subName,
                                   phase |-> "exists"])]

\* subscribe with `this.currentClientId` for `this.currentClientId++`
subscribeIn_NoIncrement(E, topicName, onMessage) ==
  LET subName == topic2SubName(topicName)
      id == E.currentClientId
      old == IF subName \in DOMAIN E.googleSubName2GoogleSubAndClientIds
               THEN E.googleSubName2GoogleSubAndClientIds[subName]
               ELSE NoEntry
      oldIds == old.ids
  IN [E EXCEPT
        !.clientId2GoogleSubNameAndClientCallback =
           Put(@, id, [subName |-> subName, onMessage |-> onMessage]),
        !.googleSubName2GoogleSubAndClientIds =
           Put(@, subName, [old EXCEPT !.ids = Append(oldIds, id)]),
        !.subscribeResult =
           Put(@, id, IF Len(oldIds) > 0 THEN "resolved" ELSE "pending"),
        !.roundTrips =
           IF Len(oldIds) > 0 THEN @
           ELSE Put(@, id, [topicName |-> topicName, subName |-> subName,
                            phase |-> "exists"])]

\* lines 47-54: the synchronous part of subscribe, up to the await
subscribeIn(E, topicName, onMessage) ==
  LET subName == topic2SubName(topicName)
      id == E.currentClientId
      old == IF subName \in DOMAIN E.googleSubName2GoogleSubAndClientIds
               THEN E.googleSubName2GoogleSubAndClientIds[subName]
               ELSE NoEntry
      oldIds == old.ids
  IN [E EXCEPT
        !.currentClientId = id + 1,
        !.clientId2GoogleSubNameAndClientCallback =
           Put(@, id, [subName |-> subName, onMessage |-> onMessage]),
        !.googleSubName2GoogleSubAndClientIds =
           Put(@, subName, [old EXCEPT !.ids = Append(oldIds, id)]),
        !.subscribeResult =
           Put(@, id, IF Len(oldIds) > 0 THEN "resolved" ELSE "pending"),
        !.roundTrips =
           IF Len(oldIds) > 0 THEN @
           ELSE Put(@, id, [topicName |-> topicName, subName |-> subName,
                            phase |-> "exists"])]

\* lines 58-68: attach the handlers to `sub` and record them in the entry
AttachHandlers(E, id, sub, subName) ==
  LET handler == id   \* the closures this call creates, named after the call
      googleSubAndClientIds == E.googleSubName2GoogleSubAndClientIds[subName]
  IN [E EXCEPT
        !.listeners = @ \cup {Listener(sub, "message", handler, subName),
                              Listener(sub, "error", handler, subName)},
        !.subCalls = @ \o <<OnCall(sub, "message", handler, subName),
                            OnCall(sub, "error", handler, subName)>>,
        !.googleSubName2GoogleSubAndClientIds[subName] =
           [googleSubAndClientIds EXCEPT !.messageHandler = handler,
                                         !.errorHandler = handler,
                                         !.sub = sub],
        !.subscribeResult[id] = "resolved"]

\* the continuation as it would be without the re-check of line 57: it
\* re-creates the entry for the caller and attaches
subscribeContinueIn_NoRecheck(E, id, sub) ==
  LET subName == E.roundTrips[id].subName
      F == [E EXCEPT !.roundTrips = Delete(@, id)]
      G == IF subName \in DOMAIN F.googleSubName2GoogleSubAndClientIds
             THEN F
             ELSE [F EXCEPT !.googleSubName2GoogleSubAndClientIds =
                              Put(@, subName, [NoEntry EXCEPT !.ids = <<id>>])]
  IN AttachHandlers(G, id, sub, subName)

\* lines 55-69: subscribe after `await this.getSubscription(...)` gave `sub`
subscribeContinueIn(E, id, sub) ==
  LET subName == E.roundTrips[id].subName
      F == [E EXCEPT !.roundTrips = Delete(@, id)]
  IN IF subName \notin DOMAIN F.googleSubName2GoogleSubAndClientIds
       THEN \* line 57, `({}).ids.length`: TypeError, the promise rejects
            [F EXCEPT !.subscribeResult[id] = "TypeError", !.thrown = "TypeError"]
       ELSE IF Len(F.googleSubName2GoogleSubAndClientIds[subName].ids) = 0
              THEN [F EXCEPT !.subscribeResult[id] = "resolved"]
              ELSE AttachHandlers(F, id, sub, subName)

subscribe(topicName, onMessage) ==
  /\ currentClientId < MaxSubscribes
  /\ LET E == subscribeIn(Engine, topicName, onMessage)
     IN /\ SetEngine(E)
        /\ onMessageCalls' = Put(onMessageCalls, currentClientId, <<>>)
        /\ lastOp' = Op("subscribe", currentClientId, E.subscribeResult[currentClientId])
  /\ UNCHANGED <<messageCount, acks, transforms, handlerCalls, inflight, dispatches,
                 bridgeVars>>

subscribeContinue(id, sub) ==
  LET E == subscribeContinueIn(Engine, id, sub)
  IN /\ SetEngine(E)
     /\ lastOp' = Op("settle", id, E.subscribeResult[id])
     /\ UNCHANGED <<messageVars, bridgeVars>>

(* --------------------- GooglePubSub.getSubscription ------------------- *)

\* lines 36-43: `await sub.exists()` settles; the broker says whether the
\* subscription exists.  The handle `sub` is named after the call that made it.
ExistsResolved(id, exists) ==
  /\ id \in DOMAIN roundTrips
  /\ roundTrips[id].phase = "exists"
  /\ IF exists
       THEN subscribeContinue(id, id)
       ELSE /\ roundTrips' = [roundTrips EXCEPT ![id].phase = "create"]
            /\ lastOp' = Op("createSubscription", id, "pending")
            /\ UNCHANGED <<clientId2GoogleSubNameAndClientCallback,
                           googleSubName2GoogleSubAndClientIds, currentClientId,
                           subscribeResult, listeners, subCalls, publishCalls,
                           consoleErrors, messageVars, bridgeVars>>

\* lines 41-42: `await ...createSubscription(subName)` settles with newSub
CreateSubscriptionResolved(id) ==
  /\ id \in DOMAIN roundTrips
  /\ roundTrips[id].phase = "create"
  /\ subscribeContinue(id, id)

\* the failure of a round trip as it would be if subscribe tried again
subscribeRejectsIn_Retry(E, id) ==
  [E EXCEPT !.roundTrips[id].phase = "exists"]

\* line 54: `await this.getSubscription(...)` throws; subscribe is an async
\* function without try/catch, so its promise rejects and lines 55-69 do not run
subscribeRejectsIn(E, id) ==
  [E EXCEPT !.roundTrips = Delete(@, id),
            !.subscribeResult[id] = "rejected",
            !.thrown = "BrokerError"]

subscribeRejects(id) ==
  LET E == subscribeRejectsIn(Engine, id)
  IN /\ SetEngine(E)
     /\ lastOp' = Op("roundTripFails", id, E.subscribeResult[id])
     /\ UNCHANGED <<messageVars, bridgeVars>>

\* line 37: `await sub.exists()` rejects
ExistsRejected(id) ==
  /\ id \in DOMAIN roundTrips
  /\ roundTrips[id].phase = "exists"
  /\ subscribeRejects(id)

\* line 41: `await ...createSubscription(subName)` rejects
CreateSubscriptionRejected(id) ==
  /\ id \in DOMAIN roundTrips
  /\ roundTrips[id].phase = "create"
  /\ subscribeRejects(id)

(* ----------------------- GooglePubSub.unsubscribe --------------------- *)

\* RemoveEntry as it would be if only the message handler were detached
RemoveEntry_MessageOnly(E, subName) ==
  LET googleSubAndClientIds == E.googleSubName2GoogleSubAndClientIds[subName]
      sub == googleSubAndClientIds.sub
      messageHandler == googleSubAndClientIds.messageHandler
      F == IF sub # Undefined
             THEN [E EXCEPT
                     !.listeners = @ \ {Listener(sub, "message", messageHandler, subName)},
                     !.subCalls = @ \o
                        <<RemoveListenerCall(sub, "message", messageHandler, subName)>>]
             ELSE E
  IN [F EXCEPT !.googleSubName2GoogleSubAndClientIds = Delete(@, subName)]

\* RemoveEntry without the removeListener calls of lines 98-99
RemoveEntry_NoDetach(E, subName) ==
  [E EXCEPT !.googleSubName2GoogleSubAndClientIds = Delete(@, subName)]

\* lines 94-102: the entry holds one id
RemoveEntry(E, subName) ==
  LET googleSubAndClientIds == E.googleSubName2GoogleSubAndClientIds[subName]
      sub == googleSubAndClientIds.sub
      messageHandler == googleSubAndClientIds.messageHandler
      errorHandler == googleSubAndClientIds.errorHandler
      F == IF sub # Undefined
             THEN [E EXCEPT
                     !.listeners = @ \ {Listener(sub, "message", messageHandler, subName),
                                        Listener(sub, "error", errorHandler, subName)},
                     !.subCalls = @ \o
                        <<RemoveListenerCall(sub, "message", messageHandler, subName),
                          RemoveListenerCall(sub, "error", errorHandler, subName)>>]
             ELSE E
  IN [F EXCEPT !.googleSubName2GoogleSubAndClientIds = Delete(@, subName)]

\* lines 103-109: the entry holds another number of ids
RemoveId(E, subName, subId) ==
  LET ids == E.googleSubName2GoogleSubAndClientIds[subName].ids
      index == IndexOf(ids, subId)
  IN [E EXCEPT !.googleSubName2GoogleSubAndClientIds[subName].ids =
        IF index = -1 THEN ids ELSE WithoutIndex(ids, index)]

\* unsubscribe as it would be if an unknown id were ignored
unsubscribeIn_Silent(E, subId) ==
  IF subId \notin DOMAIN E.clientId2GoogleSubNameAndClientCallback
    THEN E
    ELSE LET subName == E.clientId2GoogleSubNameAndClientCallback[subId].subName
         IN IF subName \notin DOMAIN E.googleSubName2GoogleSubAndClientIds
              THEN E
              ELSE LET F == IF Len(E.googleSubName2GoogleSubAndClientIds[subName].ids) = 1
                              THEN RemoveEntry(E, subName)
                              ELSE RemoveId(E, subName, subId)
                   IN [F EXCEPT !.clientId2GoogleSubNameAndClientCallback =
                                   Delete(@, subId)]

\* unsubscribe without the `delete` of line 110
unsubscribeIn_KeepRecord(E, subId) ==
  IF subId \notin DOMAIN E.clientId2GoogleSubNameAndClientCallback
    THEN [E EXCEPT !.thrown = "NoSubscriptionOfIdError"]
    ELSE LET subName == E.clientId2GoogleSubNameAndClientCallback[subId].subName
         IN IF subName \notin DOMAIN E.googleSubName2GoogleSubAndClientIds
              THEN [E EXCEPT !.thrown = "NoSubscriptionOfIdError"]
              ELSE IF Len(E.googleSubName2GoogleSubAndClientIds[subName].ids) = 1
                     THEN RemoveEntry(E, subName)
                     ELSE RemoveId(E, subName, subId)

\* lines 86-111
unsubscribeIn(E, subId) ==
  IF subId \notin DOMAIN E.clientId2GoogleSubNameAndClientCallback
    THEN [E EXCEPT !.thrown = "NoSubscriptionOfIdError"]   \* line 88
    ELSE LET subName == E.clientId2GoogleSubNameAndClientCallback[subId].subName
         IN IF subName \notin DOMAIN E.googleSubName2GoogleSubAndClientIds
              THEN [E EXCEPT !.thrown = "NoSubscriptionOfIdError"]   \* line 92
              ELSE LET F == IF Len(E.googleSubName2GoogleSubAndClientIds[subName].ids) = 1
                              THEN RemoveEntry(E, subName)
                              ELSE RemoveId(E, subName, subId)
                   IN [F EXCEPT !.clientId2GoogleSubNameAndClientCallback =
                                   Delete(@, subId)]

unsubscribe(subId) ==
  LET E == unsubscribeIn(Engine, subId)
  IN /\ SetEngine(E)
     /\ lastOp' = Op("unsubscribe", subId, IF E.thrown = "" THEN "ok" ELSE E.thrown)
     /\ UNCHANGED <<messageVars, bridgeVars>>

(* ------------------------ the error handler --------------------------- *)

\* the error handler as it would be if it took the entry's handlers off
errorEvent_Detaches(listener, error) ==
  /\ Len(consoleErrors) < MaxErrors
  /\ listener \in listeners
  /\ listener.event = "error"
  /\ SetEngine([Engine EXCEPT
                  !.consoleErrors = Append(@, error),
                  !.listeners = {l \in @ : l.subName # listener.subName}])
  /\ lastOp' = Op("error", listener.handler, "logged")
  /\ UNCHANGED <<messageVars, bridgeVars>>

\* line 59, `const errorHandler = error => console.error(error)`: the broker
\* subscription emits 'error' and calls the handler attached on line 61
errorEvent(listener, error) ==
  /\ Len(consoleErrors) < MaxErrors
  /\ listener \in listeners
  /\ listener.event = "error"
  /\ SetEngine([Engine EXCEPT !.consoleErrors = Append(@, error)])
  /\ lastOp' = Op("error", listener.handler, "logged")
  /\ UNCHANGED <<messageVars, bridgeVars>>

(* -------------------- GooglePubSub.getMessageHandler ------------------ *)

\* the handler as it would be if it acknowledged the message once the
\* transform has been called
handleMessage_AckAfterTransform(listener, data, limit) ==
  /\ messageCount < limit
  /\ listener \in listeners
  /\ listener.event = "message"
  /\ LET message == [seq |-> messageCount, data |-> data]
     IN /\ acks' = Put(acks, message.seq, 1)
        /\ transforms' = Put(transforms, message.seq, 1)
        /\ handlerCalls' = Put(handlerCalls, message.seq,
                               <<Call("commonMessageHandler", Undefined),
                                 Call("ack", Undefined)>>)
        /\ inflight' = inflight \cup
             {[subName |-> listener.subName, message |-> message,
               res |-> commonMessageHandler(message)]}
        /\ dispatches' = Put(dispatches, message.seq, "pending")
        /\ lastOp' = Op("handleMessage", message.seq, "awaiting")
  /\ messageCount' = messageCount + 1
  /\ UNCHANGED <<engineVars, onMessageCalls, bridgeVars>>

\* lines 75-76: the broker calls an attached message handler with a message;
\* the handler acknowledges it and awaits the transform
handleMessage(listener, data, limit) ==
  /\ messageCount < limit
  /\ listener \in listeners
  /\ listener.event = "message"
  /\ LET message == [seq |-> messageCount, data |-> data]
     IN /\ acks' = Put(acks, message.seq, 1)
        /\ transforms' = Put(transforms, message.seq, 1)
        /\ handlerCalls' = Put(handlerCalls, message.seq, <<Call("ack", Undefined),
                                                Call("commonMessageHandler", Undefined)>>)
        /\ inflight' = inflight \cup
             {[subName |-> listener.subName, message |-> message,
               res |-> commonMessageHandler(message)]}
        /\ dispatches' = Put(dispatches, message.seq, "pending")
        /\ lastOp' = Op("handleMessage", message.seq, "awaiting")
  /\ messageCount' = messageCount + 1
  /\ UNCHANGED <<engineVars, onMessageCalls, bridgeVars>>

\* what the delivery callbacks write: the direct subscribers' calls, and the
\* iterator's then-callbacks
Deliveries ==
  [onMessageCalls |-> onMessageCalls, thenQueue |-> thenQueue, pushLog |-> pushLog,
   calls |-> <<>>]

Task(kind, call, value) == [kind |-> kind, call |-> call, value |-> value]

\* line 80, onMessage(res): a direct subscriber's callback ("spy", or
\* "thrower", which throws once called), which records its call, or the
\* iterator's pushValue (lines 172-173), which hands its body to
\* allSubscribed.then
onMessageIn(D, id, res) ==
  IF clientId2GoogleSubNameAndClientCallback[id].onMessage = "pushValue"
    THEN [D EXCEPT !.thenQueue = Append(@, Task("push", Undefined, <<res>>)),
                   !.pushLog = Append(@, res)]
    ELSE [D EXCEPT !.onMessageCalls[id] = Append(@, res),
                   !.calls = Append(@, Call("onMessage", id))]

\* the fan-out as it would be if the loop stopped after the first listener
Deliver_FirstOnly(D, ids, res) ==
  IF ids = <<>> THEN D
  ELSE onMessageIn(D, Head(ids), res)

\* the fan-out as it would be if it called the callback of every listener id
\* ever issued, whether or not it is still registered
Deliver_EveryIssuedId(D, ids, res) ==
  [D EXCEPT !.onMessageCalls = [id \in DOMAIN @ |-> Append(@[id], res)],
            !.calls = [i \in 1..currentClientId |-> Call("onMessage", i - 1)]]

\* the fan-out as it would be if the loop walked the list from its end
RECURSIVE Deliver_Reversed(_, _, _)
Deliver_Reversed(D, ids, res) ==
  IF ids = <<>> THEN D
  ELSE IF ids[Len(ids)] \notin DOMAIN clientId2GoogleSubNameAndClientCallback THEN D
  ELSE Deliver_Reversed(onMessageIn(D, ids[Len(ids)], res), SubSeq(ids, 1, Len(ids) - 1), res)

\* lines 78-81: ids.forEach(id => { const [, onMessage] = ...[id]; onMessage(res) });
\* destructuring a missing record throws and ends the loop, and so does a
\* callback that throws
RECURSIVE Deliver(_, _, _)
Deliver(D, ids, res) ==
  IF ids = <<>> THEN D
  ELSE IF Head(ids) \notin DOMAIN clientId2GoogleSubNameAndClientCallback THEN D
  ELSE IF clientId2GoogleSubNameAndClientCallback[Head(ids)].onMessage = "thrower"
    THEN onMessageIn(D, Head(ids), res)
  ELSE Deliver(onMessageIn(D, Head(ids), res), Tail(ids), res)

\* the loop of lines 78-81 throws: an id of the list has no listener record,
\* or its callback throws
DeliverThrows(ids) ==
  \E i \in 1..Len(ids) :
    \/ ids[i] \notin DOMAIN clientId2GoogleSubNameAndClientCallback
    \/ clientId2GoogleSubNameAndClientCallback[ids[i]].onMessage = "thrower"

\* the fan-out as it would be if the transform were applied for every listener
fanOut_TransformPerListener(m) ==
  /\ m \in inflight
  /\ inflight' = inflight \ {m}
  /\ LET D == Deliver(Deliveries, IdsOf(m.subName), m.res)
     IN /\ onMessageCalls' = D.onMessageCalls
        /\ thenQueue' = D.thenQueue
        /\ pushLog' = D.pushLog
        /\ handlerCalls' = [handlerCalls EXCEPT ![m.message.seq] = @ \o D.calls]
  /\ transforms' = [transforms EXCEPT ![m.message.seq] = Len(IdsOf(m.subName))]
  /\ dispatches' = [dispatches EXCEPT ![m.message.seq] =
                       IF DeliverThrows(IdsOf(m.subName)) THEN "rejected"
                       ELSE "fulfilled"]
  /\ lastOp' = Op("fanOut", m.message.seq, "ok")
  /\ UNCHANGED <<engineVars, messageCount, acks, eventsArray, allSubscribed,
                 subscriptionIds, listening, pullQueue, pushQueue, nextCalls,
                 returnCalls, throwCalls>>

\* lines 77-81: after the transform, fan the result out to the entry's ids;
\* the promise of the async function is fulfilled when the loop ends normally
fanOut(m) ==
  /\ m \in inflight
  /\ inflight' = inflight \ {m}
  /\ LET D == Deliver(Deliveries, IdsOf(m.subName), m.res)
     IN /\ onMessageCalls' = D.onMessageCalls
        /\ thenQueue' = D.thenQueue
        /\ pushLog' = D.pushLog
        /\ handlerCalls' = [handlerCalls EXCEPT ![m.message.seq] = @ \o D.calls]
  /\ dispatches' = [dispatches EXCEPT ![m.message.seq] =
                       IF DeliverThrows(IdsOf(m.subName)) THEN "rejected"
                       ELSE "fulfilled"]
  /\ lastOp' = Op("fanOut", m.message.seq, "ok")
  /\ UNCHANGED <<engineVars, messageCount, acks, transforms, eventsArray, allSubscribed,
                 subscriptionIds, listening, pullQueue, pushQueue, nextCalls,
                 returnCalls, throwCalls>>

\* line 76: the transform throws or its promise rejects.  handleMessage is an
\* async function without try/catch: the rest of its body is skipped and the
\* promise it returned rejects; the event emitter that called it dropped that
\* promise, so nothing handles the rejection
transformRejects(m) ==
  /\ m \in inflight
  /\ inflight' = inflight \ {m}
  /\ dispatches' = [dispatches EXCEPT ![m.message.seq] = "rejected"]
  /\ lastOp' = Op("transformRejects", m.message.seq, "unhandledRejection")
  /\ UNCHANGED <<engineVars, messageCount, acks, transforms, handlerCalls, onMessageCalls,
                 bridgeVars>>

(* ------------------------------ engine -------------------------------- *)

\* the topics the direct subscribers of Spec use
EngineTopics == {"Posts"}

Payloads == {"test"}

Next ==
  \/ \E topicName \in EngineTopics : subscribe(topicName, "spy")
  \/ \E id \in DOMAIN roundTrips : \E exists \in BOOLEAN : ExistsResolved(id, exists)
  \/ \E id \in DOMAIN roundTrips : CreateSubscriptionResolved(id)
  \/ \E subId \in 0..MaxSubscribes : unsubscribe(subId)
  \/ \E listener \in listeners : \E data \in Payloads :
       handleMessage(listener, data, MaxMessages)
  \/ \E m \in inflight : fanOut(m)

Spec == Init /\ [][Next]_vars

(* ------------------------ PubSubAsyncIterator ------------------------- *)

\* the topic lists an iterator is constructed over
EventArrays == {<<"Posts">>, <<"Posts", "Times">>}

\* the iterator's own fields as one value B
Bridge ==
  [listening |-> listening, pullQueue |-> pullQueue, pushQueue |-> pushQueue,
   nextCalls |-> nextCalls]

SetBridge(B) ==
  /\ listening' = B.listening
  /\ pullQueue' = B.pullQueue
  /\ pushQueue' = B.pushQueue
  /\ nextCalls' = B.nextCalls

\* a promise as returned by next() or return(); value is <<>> for undefined.
\* resolves counts the calls of its resolve function, afterReturn tells
\* whether a return() had completed when the call was made.
Pending(afterReturn) ==
  [settled |-> "pending", value |-> <<>>, done |-> FALSE, resolves |-> 0,
   afterReturn |-> afterReturn]

\* resolve({ value, done }): only the first call settles the promise
Resolved(promise, value, done) ==
  IF promise.settled = "pending"
    THEN [promise EXCEPT !.settled = "fulfilled", !.value = value, !.done = done,
                         !.resolves = @ + 1]
    ELSE [promise EXCEPT !.resolves = @ + 1]

Rejected(promise) ==
  IF promise.settled = "pending" THEN [promise EXCEPT !.settled = "rejected"]
  ELSE promise

\* a rejection that carries its reason in value
RejectedWith(promise, reason) ==
  IF promise.settled = "pending"
    THEN [promise EXCEPT !.settled = "rejected", !.value = <<reason>>]
    ELSE promise

\* lines 203-207: subscribe to every topic in turn, with pushValue as callback
RECURSIVE subscribeAllIn(_, _)
subscribeAllIn(E, topics) ==
  IF topics = <<>> THEN E
  ELSE subscribeAllIn(subscribeIn(E, Head(topics), "pushValue"), Tail(topics))

\* unsubscribeAll as it would be if it stopped after the first id
unsubscribeAllIn_FirstOnly(E, ids) ==
  IF ids = <<>> THEN E ELSE unsubscribeIn(E, Head(ids))

\* lines 209-213: the loop ends at the first unsubscribe that throws
RECURSIVE unsubscribeAllIn(_, _)
unsubscribeAllIn(E, ids) ==
  IF ids = <<>> THEN E
  ELSE LET F == unsubscribeIn(E, Head(ids))
       IN IF F.thrown # "" THEN F ELSE unsubscribeAllIn(F, Tail(ids))

\* pullValue with `this.pushQueue.pop()` for `shift()`
pullValueIn_Pop(B, call) ==
  IF Len(B.pushQueue) # 0
    THEN [B EXCEPT !.pushQueue = SubSeq(@, 1, Len(@) - 1),
                   !.nextCalls[call] =
                      Resolved(@, <<B.pushQueue[Len(B.pushQueue)]>>, FALSE)]
    ELSE [B EXCEPT !.pullQueue = Append(@, call)]

\* pullValue as it would be if it kept no resolver when nothing is buffered
pullValueIn_Forget(B, call) ==
  IF Len(B.pushQueue) # 0
    THEN [B EXCEPT !.pushQueue = Tail(@),
                   !.nextCalls[call] = Resolved(@, <<Head(B.pushQueue)>>, FALSE)]
    ELSE B

\* lines 182-191
pullValueIn(B, call) ==
  IF Len(B.pushQueue) # 0
    THEN [B EXCEPT !.pushQueue = Tail(@),
                   !.nextCalls[call] = Resolved(@, <<Head(B.pushQueue)>>, FALSE)]
    ELSE [B EXCEPT !.pullQueue = Append(@, call)]

\* pushValue as it would be if it buffered every value
pushValueIn_AlwaysBuffer(B, event) ==
  [B EXCEPT !.pushQueue = Append(@, event)]

\* lines 174-178, the body of pushValue's then-callback
pushValueIn(B, event) ==
  IF Len(B.pullQueue) # 0
    THEN [B EXCEPT !.pullQueue = Tail(@),
                   !.nextCalls[Head(B.pullQueue)] = Resolved(@, <<event>>, FALSE)]
    ELSE [B EXCEPT !.pushQueue = Append(@, event)]

\* line 197: resolve every pending pull with { value: undefined, done: true }
RECURSIVE ResolveAll(_, _)
ResolveAll(calls, queue) ==
  IF queue = <<>> THEN calls
  ELSE ResolveAll([calls EXCEPT ![Head(queue)] = Resolved(@, <<>>, TRUE)], Tail(queue))

\* emptyQueue without the test of this.listening
emptyQueueIn_NoListeningTest(E, B, ids) ==
  LET F == unsubscribeAllIn(E, ids)
  IN IF F.thrown # ""
       THEN [E |-> F, B |-> [B EXCEPT !.listening = FALSE]]
       ELSE [E |-> F,
             B |-> [B EXCEPT !.listening = FALSE,
                             !.nextCalls = ResolveAll(@, B.pullQueue),
                             !.pullQueue = <<>>,
                             !.pushQueue = <<>>]]

\* emptyQueue without the call of unsubscribeAll
emptyQueueIn_NoUnsubscribe(E, B, ids) ==
  IF B.listening
    THEN [E |-> E,
          B |-> [B EXCEPT !.listening = FALSE,
                          !.nextCalls = ResolveAll(@, B.pullQueue),
                          !.pullQueue = <<>>,
                          !.pushQueue = <<>>]]
    ELSE [E |-> E, B |-> B]

\* lines 193-201, on the engine E and the iterator B; an exception from
\* unsubscribeAll leaves the rest of the body undone
emptyQueueIn(E, B, ids) ==
  IF B.listening
    THEN LET F == unsubscribeAllIn(E, ids)
         IN IF F.thrown # ""
              THEN [E |-> F, B |-> [B EXCEPT !.listening = FALSE]]
              ELSE [E |-> F,
                    B |-> [B EXCEPT !.listening = FALSE,
                                    !.nextCalls = ResolveAll(@, B.pullQueue),
                                    !.pullQueue = <<>>,
                                    !.pushQueue = <<>>]]
    ELSE [E |-> E, B |-> B]

\* lines 140-148: new PubSubAsyncIterator(engine, subNames)
asyncIterator(topics) ==
  /\ allSubscribed = "none"
  /\ currentClientId + Len(topics) <= MaxSubscribes
  /\ LET E == subscribeAllIn(Engine, topics)
         ids == [i \in 1..Len(topics) |-> currentClientId + i - 1]
     IN /\ SetEngine(E)
        /\ subscriptionIds' = ids
        /\ onMessageCalls' = [id \in DOMAIN onMessageCalls \cup Range(ids) |->
                                IF id \in DOMAIN onMessageCalls
                                  THEN onMessageCalls[id] ELSE <<>>]
  /\ eventsArray' = topics
  /\ allSubscribed' = "pending"
  /\ listening' = TRUE
  /\ pullQueue' = <<>>
  /\ pushQueue' = <<>>
  /\ lastOp' = Op("asyncIterator", currentClientId, "ok")
  /\ UNCHANGED <<messageCount, acks, transforms, handlerCalls, inflight, dispatches,
                 thenQueue,
                 nextCalls,
                 returnCalls, throwCalls, pushLog>>

\* line 204, Promise.all: fulfilled once every subscribe promise is, rejected
\* as soon as one is rejected
allSubscribedSettles ==
  /\ allSubscribed = "pending"
  /\ \/ /\ \E i \in 1..Len(subscriptionIds) :
             subscribeResult[subscriptionIds[i]] \in {"TypeError", "rejected"}
        /\ allSubscribed' = "rejected"
     \/ /\ \A i \in 1..Len(subscriptionIds) :
             subscribeResult[subscriptionIds[i]] = "resolved"
        /\ allSubscribed' = "resolved"
  /\ lastOp' = Op("allSubscribed", Undefined, allSubscribed')
  /\ UNCHANGED <<engineVars, messageVars, eventsArray, subscriptionIds, listening,
                 pullQueue, pushQueue, thenQueue, nextCalls, returnCalls, throwCalls,
                 pushLog>>

ReturnCompleted ==
  \E r \in 1..Len(returnCalls) : returnCalls[r].settled = "fulfilled"

\* lines 150-152: next() hands its body to allSubscribed.then
next ==
  /\ allSubscribed # "none"
  /\ Len(nextCalls) < MaxNexts
  /\ nextCalls' = Append(nextCalls, Pending(ReturnCompleted))
  /\ thenQueue' = Append(thenQueue, Task("next", Len(nextCalls) + 1, <<>>))
  /\ lastOp' = Op("next", Len(nextCalls) + 1, "pending")
  /\ UNCHANGED <<engineVars, messageVars, eventsArray, allSubscribed, subscriptionIds,
                 listening, pullQueue, pushQueue, returnCalls, throwCalls, pushLog>>

\* lines 154-159: return() hands its body to allSubscribed.then
return ==
  /\ allSubscribed # "none"
  /\ Len(returnCalls) < MaxReturns
  /\ returnCalls' = Append(returnCalls, Pending(ReturnCompleted))
  /\ thenQueue' = Append(thenQueue, Task("return", Len(returnCalls) + 1, <<>>))
  /\ lastOp' = Op("return", Len(returnCalls) + 1, "pending")
  /\ UNCHANGED <<engineVars, messageVars, eventsArray, allSubscribed, subscriptionIds,
                 listening, pullQueue, pushQueue, nextCalls, throwCalls, pushLog>>

\* the errors a consumer passes to throw()
Errors == {"boom"}

\* lines 161-166: throw(error) hands its body to allSubscribed.then
throw(error) ==
  /\ allSubscribed # "none"
  /\ Len(throwCalls) < MaxThrows
  /\ throwCalls' = Append(throwCalls, Pending(ReturnCompleted))
  /\ thenQueue' = Append(thenQueue, Task("throw", Len(throwCalls) + 1, <<error>>))
  /\ lastOp' = Op("throw", Len(throwCalls) + 1, "pending")
  /\ UNCHANGED <<engineVars, messageVars, eventsArray, allSubscribed, subscriptionIds,
                 listening, pullQueue, pushQueue, nextCalls, returnCalls, pushLog>>

\* line 151 without the test of this.listening
RunNext_NoListeningTest(task) ==
  /\ SetBridge(pullValueIn(Bridge, task.call))
  /\ thenQueue' = Tail(thenQueue)
  /\ UNCHANGED <<engineVars, returnCalls, throwCalls>>

\* line 151: this.listening ? this.pullValue() : this.return()
RunNext(task) ==
  IF listening
    THEN /\ SetBridge(pullValueIn(Bridge, task.call))
         /\ thenQueue' = Tail(thenQueue)
         /\ UNCHANGED <<engineVars, returnCalls, throwCalls>>
    ELSE /\ thenQueue' = Append(Tail(thenQueue), Task("nextReturn", task.call, <<>>))
         /\ UNCHANGED <<engineVars, listening, pullQueue, pushQueue, nextCalls,
                        returnCalls, throwCalls>>

\* lines 155-158: the body of return(), called by the consumer ("return") or
\* by next() on a closed iterator ("nextReturn")
RunReturn(task) ==
  LET R == emptyQueueIn(Engine, Bridge, subscriptionIds)
      threw == R.E.thrown # ""
  IN /\ SetEngine(R.E)
     /\ thenQueue' = Tail(thenQueue)
     /\ listening' = R.B.listening
     /\ pullQueue' = R.B.pullQueue
     /\ pushQueue' = R.B.pushQueue
     /\ IF task.kind = "return"
          THEN /\ returnCalls' = [returnCalls EXCEPT ![task.call] =
                    IF threw THEN Rejected(@) ELSE Resolved(@, <<>>, TRUE)]
               /\ nextCalls' = R.B.nextCalls
          ELSE /\ nextCalls' = [R.B.nextCalls EXCEPT ![task.call] =
                    IF threw THEN Rejected(@) ELSE Resolved(@, <<>>, TRUE)]
               /\ UNCHANGED returnCalls
     /\ UNCHANGED throwCalls

\* the body of throw() without the teardown
RunThrow_NoTeardown(task) ==
  /\ thenQueue' = Tail(thenQueue)
  /\ throwCalls' = [throwCalls EXCEPT ![task.call] = RejectedWith(@, task.value[1])]
  /\ UNCHANGED <<engineVars, listening, pullQueue, pushQueue, nextCalls, returnCalls>>

\* lines 162-165: the body of throw(); its promise rejects with the error
\* given, or with the exception emptyQueue raised
RunThrow(task) ==
  LET R == emptyQueueIn(Engine, Bridge, subscriptionIds)
      threw == R.E.thrown # ""
  IN /\ SetEngine(R.E)
     /\ SetBridge(R.B)
     /\ thenQueue' = Tail(thenQueue)
     /\ throwCalls' = [throwCalls EXCEPT ![task.call] =
           RejectedWith(@, IF threw THEN R.E.thrown ELSE task.value[1])]
     /\ UNCHANGED returnCalls

\* lines 173-179
RunPush(task) ==
  /\ SetBridge(pushValueIn(Bridge, task.value[1]))
  /\ thenQueue' = Tail(thenQueue)
  /\ UNCHANGED <<engineVars, returnCalls, throwCalls>>

\* a then-callback of a rejected allSubscribed is not run: the promise that
\* then() returned rejects
RunRejected(task) ==
  /\ thenQueue' = Tail(thenQueue)
  /\ nextCalls' = IF task.kind \in {"next", "nextReturn"}
                    THEN [nextCalls EXCEPT ![task.call] = Rejected(@)] ELSE nextCalls
  /\ returnCalls' = IF task.kind = "return"
                      THEN [returnCalls EXCEPT ![task.call] = Rejected(@)]
                      ELSE returnCalls
  /\ throwCalls' = IF task.kind = "throw"
                     THEN [throwCalls EXCEPT ![task.call] = Rejected(@)]
                     ELSE throwCalls
  /\ UNCHANGED <<engineVars, listening, pullQueue, pushQueue>>

\* the oldest callback given to allSubscribed.then runs, once allSubscribed
\* has settled
RunThen ==
  /\ allSubscribed \in {"resolved", "rejected"}
  /\ thenQueue # <<>>
  /\ LET task == Head(thenQueue)
     IN /\ IF allSubscribed = "rejected" THEN RunRejected(task)
           ELSE IF task.kind = "next" THEN RunNext(task)
           ELSE IF task.kind = "push" THEN RunPush(task)
           ELSE IF task.kind = "throw" THEN RunThrow(task)
           ELSE RunReturn(task)
        /\ lastOp' = Op(task.kind, task.call, "ran")
  /\ UNCHANGED <<messageVars, eventsArray, allSubscribed, subscriptionIds, pushLog>>

NextBridge ==
  \/ \E topics \in EventArrays : asyncIterator(topics)
  \/ allSubscribedSettles
  \/ next
  \/ return
  \/ RunThen
  \/ \E id \in DOMAIN roundTrips : \E exists \in BOOLEAN : ExistsResolved(id, exists)
  \/ \E id \in DOMAIN roundTrips : CreateSubscriptionResolved(id)
  \/ \E listener \in listeners : \E data \in Payloads :
       handleMessage(listener, data, MaxBridgeMessages)
  \/ \E m \in inflight : fanOut(m)

SpecBridge == Init /\ [][NextBridge]_vars

(* ------------------- closing the iterator: return, throw -------------- *)

NextClose ==
  \/ \E topics \in EventArrays : asyncIterator(topics)
  \/ allSubscribedSettles
  \/ Len(nextCalls) < MaxCloseNexts /\ next
  \/ return
  \/ \E error \in Errors : throw(error)
  \/ RunThen
  \/ \E id \in DOMAIN roundTrips : \E exists \in BOOLEAN : ExistsResolved(id, exists)
  \/ \E id \in DOMAIN roundTrips : CreateSubscriptionResolved(id)
  \/ \E listener \in listeners : \E data \in Payloads :
       handleMessage(listener, data, MaxCloseMessages)
  \/ \E m \in inflight : fanOut(m)

SpecClose == Init /\ [][NextClose]_vars

(* ------------- a broker and a transform that may fail or be slow ------ *)

NextDispatch ==
  \/ \E topicName \in EngineTopics :
       currentClientId < MaxListeners /\ subscribe(topicName, "spy")
  \/ \E id \in DOMAIN roundTrips : \E exists \in BOOLEAN : ExistsResolved(id, exists)
  \/ \E id \in DOMAIN roundTrips : CreateSubscriptionResolved(id)
  \/ \E id \in DOMAIN roundTrips : ExistsRejected(id)
  \/ \E id \in DOMAIN roundTrips : CreateSubscriptionRejected(id)
  \/ \E subId \in 0..(MaxListeners - 1) : unsubscribe(subId)
  \/ \E listener \in listeners : \E data \in Payloads :
       handleMessage(listener, data, MaxDispatches)
  \/ \E m \in inflight : fanOut(m)
  \/ \E m \in inflight : transformRejects(m)

SpecDispatch == Init /\ [][NextDispatch]_vars

(* ------------- listeners of two names, direct ones and an iterator ---- *)

NextNames ==
  \/ \E topicName \in Topics :
       currentClientId < MaxListeners /\ subscribe(topicName, "spy")
  \/ \E topics \in EventArrays :
       currentClientId + Len(topics) <= MaxListeners /\ asyncIterator(topics)
  \/ allSubscribedSettles
  \/ Len(nextCalls) < MaxCloseNexts /\ next
  \/ RunThen
  \/ \E id \in DOMAIN roundTrips : \E exists \in BOOLEAN : ExistsResolved(id, exists)
  \/ \E id \in DOMAIN roundTrips : CreateSubscriptionResolved(id)
  \/ \E listener \in listeners : \E data \in Payloads :
       handleMessage(listener, data, MaxDispatches)
  \/ \E m \in inflight : fanOut(m)

SpecNames == Init /\ [][NextNames]_vars

(* ------ an iterator whose messages arrive once it is registered ------- *)

NextRegistered ==
  \/ \E topics \in EventArrays : asyncIterator(topics)
  \/ allSubscribedSettles
  \/ next
  \/ RunThen
  \/ \E id \in DOMAIN roundTrips : \E exists \in BOOLEAN : ExistsResolved(id, exists)
  \/ \E id \in DOMAIN roundTrips : CreateSubscriptionResolved(id)
  \/ \E listener \in listeners : \E data \in Payloads :
       allSubscribed = "resolved" /\ handleMessage(listener, data, MaxBridgeMessages)
  \/ \E m \in inflight : fanOut(m)

SpecRegistered == Init /\ [][NextRegistered]_vars

(* ------- an iterator whose broker subscriptions emit errors ----------- *)

\* what a broker subscription emits with 'error'
BrokerErrors == {"UNAVAILABLE"}

\* the messages arrive after an error event
NextErrors ==
  \/ \E topics \in EventArrays : asyncIterator(topics)
  \/ allSubscribedSettles
  \/ Len(nextCalls) < MaxCloseNexts /\ next
  \/ RunThen
  \/ \E id \in DOMAIN roundTrips : \E exists \in BOOLEAN : ExistsResolved(id, exists)
  \/ \E id \in DOMAIN roundTrips : CreateSubscriptionResolved(id)
  \/ \E listener \in listeners : \E error \in BrokerErrors : errorEvent(listener, error)
  \/ \E listener \in listeners : \E data \in Payloads :
       consoleErrors # <<>> /\ handleMessage(listener, data, MaxCloseMessages)
  \/ \E m \in inflight : fanOut(m)

SpecErrors == Init /\ [][NextErrors]_vars

(* ---- an iterator whose registrations fail or are undone from outside -- *)

\* the broker may reject a registration round trip, and a caller holding the
\* engine may unsubscribe one of the iterator's listener ids
NextTrouble ==
  \/ \E topics \in EventArrays : asyncIterator(topics)
  \/ allSubscribedSettles
  \/ Len(nextCalls) < MaxCloseNexts /\ next
  \/ return
  \/ \E error \in Errors : throw(error)
  \/ RunThen
  \/ \E id \in DOMAIN roundTrips : \E exists \in BOOLEAN : ExistsResolved(id, exists)
  \/ \E id \in DOMAIN roundTrips : CreateSubscriptionResolved(id)
  \/ \E id \in DOMAIN roundTrips : ExistsRejected(id)
  \/ \E id \in DOMAIN roundTrips : CreateSubscriptionRejected(id)
  \/ \E subId \in Range(subscriptionIds) : unsubscribe(subId)

SpecTrouble == Init /\ [][NextTrouble]_vars

(* ------ an iterator whose consumer calls come before registration ----- *)

\* what a step of RunThen does to the queue of then-callbacks: the oldest
\* one leaves it, and a next() run on a closed iterator puts the body of
\* return() behind the others
RunThenStep ==
  /\ allSubscribed \in {"resolved", "rejected"}
  /\ thenQueue # <<>>
  /\ lastOp' = Op(Head(thenQueue).kind, Head(thenQueue).call, "ran")
  /\ thenQueue' \in {Tail(thenQueue),
                     Append(Tail(thenQueue),
                            Task("nextReturn", Head(thenQueue).call, <<>>))}

\* the consumer calls next(), return() and throw() while allSubscribed is
\* pending.  The event loop runs every queued then-callback of a settled
\* promise: the steps RunThen are taken as long as the queue is not empty.
NextEarly ==
  \/ \E topics \in EventArrays : asyncIterator(topics)
  \/ allSubscribedSettles
  \/ allSubscribed = "pending" /\ Len(nextCalls) < MaxCloseNexts /\ next
  \/ allSubscribed = "pending" /\ return
  \/ \E error \in Errors : allSubscribed = "pending" /\ throw(error)
  \/ RunThen
  \/ \E id \in DOMAIN roundTrips : \E exists \in BOOLEAN : ExistsResolved(id, exists)
  \/ \E id \in DOMAIN roundTrips : CreateSubscriptionResolved(id)
  \/ \E listener \in listeners : \E data \in Payloads :
       handleMessage(listener, data, MaxCloseMessages)
  \/ \E m \in inflight : fanOut(m)

SpecEarly == Init /\ [][NextEarly]_vars /\ WF_<<lastOp, thenQueue>>(RunThenStep)

(* ----------------- delivery callbacks that may throw ------------------ *)

\* the delivery callbacks given to subscribe
Callbacks == {"spy", "thrower"}

NextCallbacks ==
  \/ \E topicName \in EngineTopics : \E onMessage \in Callbacks :
       currentClientId < MaxListeners /\ subscribe(topicName, onMessage)
  \/ \E id \in DOMAIN roundTrips : \E exists \in BOOLEAN : ExistsResolved(id, exists)
  \/ \E id \in DOMAIN roundTrips : CreateSubscriptionResolved(id)
  \/ \E listener \in listeners : \E data \in Payloads :
       handleMessage(listener, data, MaxDispatches)
  \/ \E m \in inflight : fanOut(m)

SpecCallbacks == Init /\ [][NextCallbacks]_vars

(* ------------- listeners that take turns on one topic ----------------- *)

\* a listener subscribes when no other is registered, and is unsubscribed
\* once its subscribe call has settled
NextTurns ==
  \/ \E topicName \in EngineTopics :
       /\ DOMAIN clientId2GoogleSubNameAndClientCallback = {}
       /\ subscribe(topicName, "spy")
  \/ \E id \in DOMAIN roundTrips : \E exists \in BOOLEAN : ExistsResolved(id, exists)
  \/ \E id \in DOMAIN roundTrips : CreateSubscriptionResolved(id)
  \/ \E subId \in DOMAIN clientId2GoogleSubNameAndClientCallback :
       roundTrips = <<>> /\ unsubscribe(subId)
  \/ \E listener \in listeners : \E data \in Payloads :
       handleMessage(listener, data, MaxDispatches)
  \/ \E m \in inflight : fanOut(m)

SpecTurns == Init /\ [][NextTurns]_vars

(* ------------- the registry under two topics and failures ------------- *)

NextRegistry ==
  \/ \E topicName \in Topics : subscribe(topicName, "spy")
  \/ \E id \in DOMAIN roundTrips : \E exists \in BOOLEAN : ExistsResolved(id, exists)
  \/ \E id \in DOMAIN roundTrips : CreateSubscriptionResolved(id)
  \/ \E id \in DOMAIN roundTrips : ExistsRejected(id)
  \/ \E id \in DOMAIN roundTrips : CreateSubscriptionRejected(id)
  \/ \E subId \in 0..MaxSubscribes : unsubscribe(subId)

SpecRegistry == Init /\ [][NextRegistry]_vars

(* ------------------------------ publish ------------------------------- *)

\* 'test', a string with a quote and a non-ASCII letter, {}, { test: true },
\* { test: 'word' }, 42
PublishData ==
  {Str(<<"t", "e", "s", "t">>),
   Str(<<"\"", "U+00E9">>),
   Obj(<<>>),
   Obj(<<Field(<<"t", "e", "s", "t">>, True)>>),
   Obj(<<Field(<<"t", "e", "s", "t">>, Str(<<"w", "o", "r", "d">>))>>),
   Num(42)}

\* `attributes?: object`: left out, or a mapping
PublishAttributes == {<<>>, <<[author |-> "me"]>>}

NextPublish ==
  \/ \E topicName \in Topics : \E data \in PublishData :
       \E attributes \in PublishAttributes : publish(topicName, data, attributes)
  \/ \E topicName \in Topics :
       currentClientId < MaxListeners /\ subscribe(topicName, "spy")
  \/ \E id \in DOMAIN roundTrips : \E exists \in BOOLEAN : ExistsResolved(id, exists)
  \/ \E id \in DOMAIN roundTrips : CreateSubscriptionResolved(id)

SpecPublish == Init /\ [][NextPublish]_vars

(* =========================== properties ============================== *)


IssuedIds == 0..(currentClientId - 1)

\* the number of sub.on / sub.removeListener calls made for an event of a name
CallCount(call, event, subName) ==
  Cardinality({i \in 1..Len(subCalls) :
                 /\ subCalls[i].call = call
                 /\ subCalls[i].event = event
                 /\ subCalls[i].subName = subName})

RoundTripPending(subName) ==
  \E id \in DOMAIN roundTrips : roundTrips[id].subName = subName

\* this step is the call unsubscribe(subId)
UnsubscribeStep(subId) == lastOp'.op = "unsubscribe" /\ lastOp'.id = subId

\* this step is the continuation of subscribe call id after its round trip
SettleStep(id) == id \in DOMAIN roundTrips /\ id \notin DOMAIN roundTrips'

\* this step is the fan-out of the in-flight message m
FanOutStep(m) == m \in inflight /\ m \notin inflight'

(* C1: whenever no listener is registered on a name and no round trip for it
   is pending, as many sub.on('message') calls as
   sub.removeListener('message') calls have been made for it. *)
C1_AttachDetachBalanced ==
  \A subName \in SubNames :
    (Len(IdsOf(subName)) = 0 /\ ~RoundTripPending(subName))
      => CallCount("on", "message", subName)
           = CallCount("removeListener", "message", subName)

(* C2: the fan-out of one handler invocation calls the delivery callback of
   every listener id registered on the entry exactly once, each with the
   transformed message, and calls no other callback; no listener ever
   receives the same message twice. *)
C2_FanOutOncePerListener ==
  /\ [][\A m \in inflight : FanOutStep(m) =>
          \A id \in IssuedIds :
            onMessageCalls'[id] =
              IF id \in Range(IdsOf(m.subName))
                THEN Append(onMessageCalls[id], commonMessageHandler(m.message))
                ELSE onMessageCalls[id]]_vars
  /\ [](\A id \in IssuedIds :
          \A i, j \in 1..Len(onMessageCalls[id]) :
            onMessageCalls[id][i] = onMessageCalls[id][j] => i = j)

C2_Witness ==
  /\ lastOp.op = "fanOut"
  /\ \E subName \in SubNames :
       /\ Len(IdsOf(subName)) >= 2
       /\ \A id \in Range(IdsOf(subName)) :
            onMessageCalls[id] = <<commonMessageHandler([seq |-> lastOp.id, data |-> "test"])>>

(* C3: unsubscribe(id) with an id that has no listener record (never issued,
   or already unsubscribed) throws NoSubscriptionOfIdError and changes
   nothing. *)
C3_UnknownIdThrows ==
  [][\A subId \in 0..MaxSubscribes :
       (UnsubscribeStep(subId) /\ subId \notin DOMAIN clientId2GoogleSubNameAndClientCallback)
         => /\ lastOp'.outcome = "NoSubscriptionOfIdError"
            /\ UNCHANGED <<engineVars, messageVars>>]_vars

C3_Witness ==
  /\ lastOp.op = "unsubscribe"
  /\ lastOp.outcome = "NoSubscriptionOfIdError"
  /\ lastOp.id \in IssuedIds
  /\ clientId2GoogleSubNameAndClientCallback # <<>>
  /\ listeners # {}

(* C4: a subscribe call starts a round trip exactly when the entry of its
   name held no listener id before the call; otherwise it is resolved at once
   and attaches nothing.  While no listener has unsubscribed, at most one
   message handler and one error handler are attached per name, and exactly
   one of each once the round trip has settled. *)
C4_OneRoundTripPerName ==
  /\ [][currentClientId' = currentClientId + 1 =>
          LET id == currentClientId
              subName == clientId2GoogleSubNameAndClientCallback'[id].subName
          IN /\ (id \in DOMAIN roundTrips') <=> (Len(IdsOf(subName)) = 0)
             /\ Len(IdsOf(subName)) > 0 =>
                  /\ subscribeResult'[id] = "resolved"
                  /\ roundTrips' = roundTrips
                  /\ subCalls' = subCalls
                  /\ listeners' = listeners]_vars
  /\ [](DOMAIN clientId2GoogleSubNameAndClientCallback = IssuedIds =>
          \A subName \in SubNames : \A event \in {"message", "error"} :
            /\ CallCount("on", event, subName) <= 1
            /\ (Len(IdsOf(subName)) > 0 /\ ~RoundTripPending(subName))
                 => CallCount("on", event, subName) = 1)

C4_Witness ==
  /\ currentClientId >= 2
  /\ DOMAIN clientId2GoogleSubNameAndClientCallback = IssuedIds
  /\ roundTrips = <<>>
  /\ \E subName \in SubNames :
       /\ Len(IdsOf(subName)) >= 2
       /\ CallCount("on", "message", subName) = 1
       /\ CallCount("on", "error", subName) = 1

(* C5: unsubscribe(id) on an entry holding more than one id removes that id
   only: no sub call is made, the other ids keep their order, their records
   and the entry's handle and handlers are unchanged; and a fan-out never
   calls the callback of an id without a listener record while it calls that
   of every id left in the entry. *)
C5_RemovesOnlyThatId ==
  /\ [][\A subId \in DOMAIN clientId2GoogleSubNameAndClientCallback :
          LET subName == clientId2GoogleSubNameAndClientCallback[subId].subName
              ids == IdsOf(subName)
          IN (UnsubscribeStep(subId) /\ Len(ids) > 1) =>
               /\ subCalls' = subCalls
               /\ listeners' = listeners
               /\ subName \in DOMAIN googleSubName2GoogleSubAndClientIds'
               /\ googleSubName2GoogleSubAndClientIds'[subName] =
                    [googleSubName2GoogleSubAndClientIds[subName] EXCEPT
                       !.ids = SelectSeq(ids, LAMBDA x : x # subId)]
               /\ \A other \in DOMAIN clientId2GoogleSubNameAndClientCallback \ {subId} :
                    /\ other \in DOMAIN clientId2GoogleSubNameAndClientCallback'
                    /\ clientId2GoogleSubNameAndClientCallback'[other] =
                         clientId2GoogleSubNameAndClientCallback[other]]_vars
  /\ [][\A m \in inflight : FanOutStep(m) =>
          \A id \in IssuedIds :
            /\ id \notin DOMAIN clientId2GoogleSubNameAndClientCallback
                 => onMessageCalls'[id] = onMessageCalls[id]
            /\ id \in Range(IdsOf(m.subName))
                 => onMessageCalls'[id] = Append(onMessageCalls[id], m.res)]_vars

C5_Witness ==
  /\ lastOp.op = "fanOut"
  /\ IdsOf("Posts-subscription") = <<0, 2>>
  /\ 1 \in IssuedIds
  /\ 1 \notin DOMAIN clientId2GoogleSubNameAndClientCallback
  /\ onMessageCalls[0] # <<>>
  /\ onMessageCalls[2] # <<>>
  /\ onMessageCalls[1] = <<>>
  /\ CallCount("removeListener", "message", "Posts-subscription") = 0

(* C6: unsubscribe(id) of the only listener of an entry whose handlers are
   attached makes exactly two sub calls, removeListener('message', the
   attached message handler) and then removeListener('error', the attached
   error handler), and deletes the entry and the listener record. *)
C6_LastListenerDetaches ==
  [][\A subId \in DOMAIN clientId2GoogleSubNameAndClientCallback :
       LET subName == clientId2GoogleSubNameAndClientCallback[subId].subName
           entry == googleSubName2GoogleSubAndClientIds[subName]
       IN (/\ UnsubscribeStep(subId)
           /\ subName \in DOMAIN googleSubName2GoogleSubAndClientIds
           /\ entry.ids = <<subId>>
           /\ entry.sub # Undefined) =>
            /\ Listener(entry.sub, "message", entry.messageHandler, subName) \in listeners
            /\ Listener(entry.sub, "error", entry.errorHandler, subName) \in listeners
            /\ subCalls' = subCalls \o
                 <<RemoveListenerCall(entry.sub, "message", entry.messageHandler, subName),
                   RemoveListenerCall(entry.sub, "error", entry.errorHandler, subName)>>
            /\ listeners' = listeners \
                 {Listener(entry.sub, "message", entry.messageHandler, subName),
                  Listener(entry.sub, "error", entry.errorHandler, subName)}
            /\ subName \notin DOMAIN googleSubName2GoogleSubAndClientIds'
            /\ subId \notin DOMAIN clientId2GoogleSubNameAndClientCallback']_vars

C6_Witness ==
  /\ lastOp.op = "unsubscribe"
  /\ lastOp.outcome = "ok"
  /\ googleSubName2GoogleSubAndClientIds = <<>>
  /\ Len(subCalls) >= 4
  /\ subCalls[Len(subCalls) - 1].call = "removeListener"
  /\ subCalls[Len(subCalls) - 1].event = "message"
  /\ subCalls[Len(subCalls)].call = "removeListener"
  /\ subCalls[Len(subCalls)].event = "error"

(* C7 as claimed: when the round trip of a subscribe call settles after the
   call's id was unsubscribed, nothing is attached, and the entry and the
   record are absent. *)
C7_AsClaimed ==
  [][\A id \in DOMAIN roundTrips :
       (SettleStep(id) /\ id \notin DOMAIN clientId2GoogleSubNameAndClientCallback) =>
          /\ subCalls' = subCalls
          /\ listeners' = listeners
          /\ roundTrips[id].subName \notin DOMAIN googleSubName2GoogleSubAndClientIds'
          /\ id \notin DOMAIN clientId2GoogleSubNameAndClientCallback']_vars

(* C7, amended: when the round trip of a subscribe call settles after the
   call's id was unsubscribed, and no other listener is registered on the
   name at that moment, nothing is attached, and the entry and the record
   are absent. *)
C7_NoAttachAfterUnsubscribe ==
  [][\A id \in DOMAIN roundTrips :
       (/\ SettleStep(id)
        /\ id \notin DOMAIN clientId2GoogleSubNameAndClientCallback
        /\ Len(IdsOf(roundTrips[id].subName)) = 0) =>
          /\ subCalls' = subCalls
          /\ listeners' = listeners
          /\ roundTrips[id].subName \notin DOMAIN googleSubName2GoogleSubAndClientIds'
          /\ id \notin DOMAIN clientId2GoogleSubNameAndClientCallback']_vars

C7_Witness ==
  /\ lastOp.op = "settle"
  /\ lastOp.id \in IssuedIds
  /\ lastOp.id \notin DOMAIN clientId2GoogleSubNameAndClientCallback
  /\ googleSubName2GoogleSubAndClientIds = <<>>
  /\ subCalls = <<>>

(* C8: when the round trip of a subscribe call settles and no listener is
   registered on its name any more, the call's promise resolves to its id
   and nothing is attached. *)
C8_ResolvesWhenAbandoned ==
  [][\A id \in DOMAIN roundTrips :
       (SettleStep(id) /\ Len(IdsOf(roundTrips[id].subName)) = 0) =>
          /\ subscribeResult'[id] = "resolved"
          /\ subCalls' = subCalls]_vars

(* ------------------------------ bridge -------------------------------- *)

\* a callback of next() call k is still waiting in allSubscribed's queue
Queued(k) ==
  \E i \in 1..Len(thenQueue) :
    thenQueue[i].kind \in {"next", "nextReturn"} /\ thenQueue[i].call = k

Yielded(k) == nextCalls[k].settled = "fulfilled" /\ ~nextCalls[k].done

(* C9: a next() call made after a return() has completed is never rejected
   and never yields a value: once its callbacks have run it is resolved with
   { value: undefined, done: true }, whatever was pushed before or after the
   close. *)
C9_DoneAfterReturn ==
  \A k \in 1..Len(nextCalls) :
    nextCalls[k].afterReturn =>
      /\ nextCalls[k].settled \in {"pending", "fulfilled"}
      /\ nextCalls[k].settled = "fulfilled" =>
           (nextCalls[k].value = <<>> /\ nextCalls[k].done)
      /\ ~Queued(k) => nextCalls[k].settled = "fulfilled"

C9_Witness ==
  /\ ~listening
  /\ pushQueue # <<>>
  /\ \E k \in 1..Len(nextCalls) :
       /\ nextCalls[k].afterReturn
       /\ nextCalls[k].settled = "fulfilled"
       /\ nextCalls[k].done

(* C10: the next() calls that yield a value (done: false) are the first
   calls made, the k-th of them yields the k-th value handed to pushValue,
   no value is yielded twice and no call's resolve function is called
   twice. *)
C10_YieldsInPushOrder ==
  /\ \A k \in 1..Len(nextCalls) : nextCalls[k].resolves <= 1
  /\ \A k \in 1..Len(nextCalls) :
       Yielded(k) =>
         /\ k <= Len(pushLog)
         /\ nextCalls[k].value = <<pushLog[k]>>
         /\ \A j \in 1..(k - 1) : Yielded(j)
  /\ \A j, k \in 1..Len(nextCalls) :
       (Yielded(j) /\ Yielded(k) /\ nextCalls[j].value = nextCalls[k].value) => j = k

C10_Witness ==
  /\ listening
  /\ Len(nextCalls) >= 2
  /\ Yielded(1)
  /\ Yielded(2)
  /\ nextCalls[1].value # nextCalls[2].value

(* ---------------------- closing the iterator ------------------------- *)

\* this step runs the then-callback of a call of the given kinds
RanStep(kinds) == lastOp'.op \in kinds /\ lastOp'.outcome = "ran"

\* the names the iterator subscribed to
BridgeSubNames == {topic2SubName(eventsArray[i]) : i \in 1..Len(eventsArray)}

\* the teardown of emptyQueue, as this step's effect: the session is closed,
\* every id the iterator holds had a listener record and has none now, no
\* other record is touched, the pending pulls are resolved with
\* { value: undefined, done: true } and both queues are empty
TornDown ==
  /\ ~listening'
  /\ Range(subscriptionIds) \subseteq DOMAIN clientId2GoogleSubNameAndClientCallback
  /\ DOMAIN clientId2GoogleSubNameAndClientCallback' =
       DOMAIN clientId2GoogleSubNameAndClientCallback \ Range(subscriptionIds)
  /\ \A subName \in DOMAIN googleSubName2GoogleSubAndClientIds' :
       Range(googleSubName2GoogleSubAndClientIds'[subName].ids)
         \cap Range(subscriptionIds) = {}
  /\ \A k \in Range(pullQueue) :
       /\ nextCalls[k].settled = "pending"
       /\ nextCalls'[k].settled = "fulfilled"
       /\ nextCalls'[k].value = <<>>
       /\ nextCalls'[k].done
       /\ nextCalls'[k].resolves = 1
  /\ pullQueue' = <<>>
  /\ pushQueue' = <<>>

\* this step changes nothing of the engine or of the iterator's session
NoTeardown ==
  UNCHANGED <<engineVars, listening, pullQueue, pushQueue, subscriptionIds>>

(* C11: the pending-pull queue and the buffered-push queue are never both
   non-empty, for every interleaving of next, push, return and throw. *)
C11_QueuesExclusive == ~(pullQueue # <<>> /\ pushQueue # <<>>)

C11_Witness ==
  /\ lastOp.op = "push"
  /\ lastOp.outcome = "ran"
  /\ listening
  /\ Len(nextCalls) >= 1
  /\ Yielded(1)
  /\ pullQueue = <<>>
  /\ pushQueue = <<>>

(* C12: the first return() on an open iterator closes the session,
   unsubscribes every listener id the iterator obtained (and fails on none,
   so none is unsubscribed twice), resolves every pending pull with
   { value: undefined, done: true }, empties both queues, and is itself
   resolved with { value: undefined, done: true }. *)
C12_FirstReturnTearsDown ==
  [][(RanStep({"return"}) /\ listening) =>
       /\ TornDown
       /\ LET call == lastOp'.id
          IN /\ returnCalls'[call].settled = "fulfilled"
             /\ returnCalls'[call].value = <<>>
             /\ returnCalls'[call].done]_vars

C12_Witness ==
  /\ lastOp.op = "return"
  /\ lastOp.outcome = "ran"
  /\ throwCalls = <<>>
  /\ Len(subscriptionIds) = 2
  /\ clientId2GoogleSubNameAndClientCallback = <<>>
  /\ googleSubName2GoogleSubAndClientIds = <<>>
  /\ ~listening
  /\ Len(nextCalls) >= 1
  /\ nextCalls[1].settled = "fulfilled"
  /\ nextCalls[1].done
  /\ returnCalls[1].settled = "fulfilled"

(* C13: return() on a closed iterator, called by the consumer or by next(),
   is a no-op: it makes no unsubscribe call, changes neither queue nor any
   other call's promise, and is resolved with { value: undefined, done: true }. *)
C13_ReturnOnClosedIsNoOp ==
  [][(RanStep({"return", "nextReturn"}) /\ ~listening) =>
       /\ NoTeardown
       /\ throwCalls' = throwCalls
       /\ LET call == lastOp'.id
              mine == IF lastOp'.op = "return" THEN returnCalls' ELSE nextCalls'
          IN /\ mine[call].settled = "fulfilled"
             /\ mine[call].value = <<>>
             /\ mine[call].done
             /\ \A k \in 1..Len(nextCalls) :
                  (lastOp'.op = "return" \/ k # call) => nextCalls'[k] = nextCalls[k]
             /\ \A r \in 1..Len(returnCalls) :
                  (lastOp'.op = "nextReturn" \/ r # call)
                    => returnCalls'[r] = returnCalls[r]]_vars

C13_Witness ==
  /\ lastOp.op = "return"
  /\ lastOp.outcome = "ran"
  /\ throwCalls # <<>>
  /\ throwCalls[1].settled = "rejected"
  /\ returnCalls[lastOp.id].settled = "fulfilled"
  /\ returnCalls[lastOp.id].done
  /\ clientId2GoogleSubNameAndClientCallback = <<>>

(* C14: a value handed to pushValue after the iterator was closed is
   dropped: once closed, the buffered-push queue stays empty. *)
C14_DroppedAfterClose ==
  (allSubscribed # "none" /\ ~listening) => pushQueue = <<>>

(* C15: throw(err) on an open iterator performs the teardown of return() and
   its promise is rejected with err; on a closed iterator it performs no
   teardown and its promise is rejected with err. *)
C15_ThrowTearsDownAndRejects ==
  [][RanStep({"throw"}) =>
       /\ IF listening
            THEN TornDown
            ELSE NoTeardown /\ nextCalls' = nextCalls
       /\ returnCalls' = returnCalls
       /\ LET call == lastOp'.id
          IN /\ throwCalls'[call].settled = "rejected"
             /\ throwCalls'[call].value = Head(thenQueue).value]_vars

C15_Witness ==
  /\ lastOp.op = "throw"
  /\ lastOp.outcome = "ran"
  /\ returnCalls = <<>>
  /\ ~listening
  /\ clientId2GoogleSubNameAndClientCallback = <<>>
  /\ throwCalls[1].settled = "rejected"
  /\ throwCalls[1].value = <<"boom">>
  /\ Len(nextCalls) >= 1
  /\ nextCalls[1].settled = "fulfilled"
  /\ nextCalls[1].done

(* ------------------- failures and slow transforms --------------------- *)

\* this step is the failure of the round trip of subscribe call id
FailStep(id) == lastOp'.op = "roundTripFails" /\ lastOp'.id = id

\* this step is the failure of the transform for the in-flight message m
TransformFailStep(m) ==
  lastOp'.op = "transformRejects" /\ lastOp'.id = m.message.seq

\* the number the broker's k-th handler invocation gave its message
SeqOf(res) == res.transformed.seq

(* C16: when the round trip of a subscribe call fails, the call's promise is
   rejected, nothing is attached, and the round trip is over; round trips
   start only in subscribe calls and a round trip never goes back to its
   first request, so the engine retries nothing on its own. *)
C16_FailureRejectsNoRetry ==
  /\ [][\A id \in DOMAIN roundTrips : FailStep(id) =>
          /\ subscribeResult[id] = "pending"
          /\ subscribeResult'[id] = "rejected"
          /\ subCalls' = subCalls
          /\ listeners' = listeners
          /\ roundTrips' = Delete(roundTrips, id)]_vars
  /\ [][\A id \in DOMAIN roundTrips' :
          IF id \in DOMAIN roundTrips
            THEN roundTrips'[id].phase = "exists" => roundTrips[id].phase = "exists"
            ELSE lastOp'.op = "subscribe" /\ lastOp'.id = id]_vars

C16_Witness ==
  /\ currentClientId >= 2
  /\ subscribeResult[0] = "rejected"
  /\ subscribeResult[1] = "resolved"
  /\ IdsOf("Posts-subscription") = <<0, 1>>
  /\ roundTrips = <<>>
  /\ subCalls = <<>>
  /\ listeners = {}

(* C17: when the transform fails for a message, no delivery callback is
   called for it, the engine's state is unchanged, and the failure is caught
   inside the handler: the promise the handler returned does not reject. *)
C17_TransformFailureCaught ==
  [][\A m \in inflight : TransformFailStep(m) =>
       /\ onMessageCalls' = onMessageCalls
       /\ UNCHANGED engineVars
       /\ dispatches'[m.message.seq] # "rejected"]_vars

(* C18: the delivery callback of a listener receives messages in the order in
   which the broker invoked the message handler with them. *)
C18_DeliveredInBrokerOrder ==
  \A id \in DOMAIN onMessageCalls :
    \A i, j \in 1..Len(onMessageCalls[id]) :
      i < j => SeqOf(onMessageCalls[id][i]) < SeqOf(onMessageCalls[id][j])

(* C19: constructing an iterator over N topics makes N subscribe calls, one
   per topic in turn, each with pushValue as callback; and when messages
   arrive after registration completed, successive next() calls yield them
   in the order in which the broker delivered them, across topics. *)
C19_OneSequenceInArrivalOrder ==
  /\ [][(allSubscribed = "none" /\ allSubscribed' # "none") =>
          /\ currentClientId' = currentClientId + Len(eventsArray')
          /\ subscriptionIds' =
               [i \in 1..Len(eventsArray') |-> currentClientId + i - 1]
          /\ \A i \in 1..Len(eventsArray') :
               clientId2GoogleSubNameAndClientCallback'[currentClientId + i - 1] =
                 [subName |-> topic2SubName(eventsArray'[i]),
                  onMessage |-> "pushValue"]]_vars
  /\ [](\A j, k \in 1..Len(nextCalls) :
          (j < k /\ Yielded(j) /\ Yielded(k))
            => SeqOf(nextCalls[j].value[1]) < SeqOf(nextCalls[k].value[1]))

(* C20: the fan-out of a message handled on the physical subscription of one
   name calls no delivery callback of a listener registered under another
   name; when the iterator subscribed to no topic of that name, nothing is
   handed to its pushValue; and no fan-out resolves a pending next() or
   touches the iterator's queues. *)
C20_NoCrossDelivery ==
  [][\A m \in inflight : FanOutStep(m) =>
       /\ \A id \in DOMAIN clientId2GoogleSubNameAndClientCallback :
            clientId2GoogleSubNameAndClientCallback[id].subName # m.subName
              => onMessageCalls'[id] = onMessageCalls[id]
       /\ m.subName \notin BridgeSubNames
            => (pushLog' = pushLog /\ thenQueue' = thenQueue)
       /\ UNCHANGED <<nextCalls, pullQueue, pushQueue>>]_vars

C20_Witness ==
  /\ eventsArray = <<"Posts">>
  /\ allSubscribed = "resolved"
  /\ pullQueue # <<>>
  /\ thenQueue = <<>>
  /\ inflight = {}
  /\ pushLog = <<>>
  /\ \E id \in DOMAIN clientId2GoogleSubNameAndClientCallback :
       /\ clientId2GoogleSubNameAndClientCallback[id].subName = "Times-subscription"
       /\ onMessageCalls[id] # <<>>

\* the subscribe calls whose promise has resolved
SettledIds == {id \in DOMAIN subscribeResult : subscribeResult[id] = "resolved"}

\* the ids that were issued and have been unsubscribed
DepartedIds == IssuedIds \ DOMAIN clientId2GoogleSubNameAndClientCallback

(* C21: when listeners take turns on a topic (A subscribes, its subscribe
   settles, A is unsubscribed, then B subscribes): every subscribe starts a
   round trip of its own and attaches the handler pair once when it settles,
   every unsubscribe detaches it once, so that after A, unsubscribe A, B
   there were one attach, one detach and one re-attach, and only B's pair is
   attached; a fan-out delivers to the listener registered at that time and
   never to a departed one. *)
C21_TurnsReattach ==
  /\ [](\A event \in {"message", "error"} :
         /\ CallCount("on", event, "Posts-subscription") = Cardinality(SettledIds)
         /\ CallCount("removeListener", event, "Posts-subscription")
              = Cardinality(DepartedIds)
         /\ \A id \in IssuedIds : id \in SettledIds \/ id \in DOMAIN roundTrips
         /\ {l.handler : l \in {k \in listeners : k.event = event}}
              = SettledIds \cap DOMAIN clientId2GoogleSubNameAndClientCallback)
  /\ [][\A m \in inflight : FanOutStep(m) =>
          \A id \in IssuedIds :
            onMessageCalls'[id] =
              IF id \in DOMAIN clientId2GoogleSubNameAndClientCallback
                THEN Append(onMessageCalls[id], m.res)
                ELSE onMessageCalls[id]]_vars

\* A came and went, B is registered and attached, and B alone received the
\* message that arrived after it settled
C21_Witness ==
  /\ DepartedIds = {0}
  /\ SettledIds = {0, 1}
  /\ CallCount("on", "message", "Posts-subscription") = 2
  /\ CallCount("removeListener", "message", "Posts-subscription") = 1
  /\ messageCount = 1
  /\ onMessageCalls[0] = <<>>
  /\ onMessageCalls[1] = <<commonMessageHandler([seq |-> 0, data |-> "test"])>>
  /\ \A l \in listeners : l.handler = 1

(* C22: every subscribe call is assigned an id that was never issued before
   and is greater than every id issued before it, whether those ids are
   still registered, were unsubscribed, or belong to a failed round trip;
   the call registers exactly that id. *)
C22_IdsStrictlyIncrease ==
  [][lastOp'.op = "subscribe" =>
       LET id == lastOp'.id
       IN /\ id \notin DOMAIN subscribeResult
          /\ \A old \in DOMAIN subscribeResult : old < id
          /\ id \notin DOMAIN clientId2GoogleSubNameAndClientCallback
          /\ DOMAIN clientId2GoogleSubNameAndClientCallback'
               = DOMAIN clientId2GoogleSubNameAndClientCallback \cup {id}
          /\ DOMAIN subscribeResult' = DOMAIN subscribeResult \cup {id}]_vars

\* id 2 was issued after the round trip of id 0 failed and id 1 was unsubscribed
C22_Witness ==
  /\ lastOp = Op("subscribe", 2, "pending")
  /\ subscribeResult[0] = "rejected"
  /\ subscribeResult[1] = "resolved"
  /\ 1 \notin DOMAIN clientId2GoogleSubNameAndClientCallback

\* the string that a sequence of UTF-8 bytes decodes to
RECURSIVE Utf8Decode(_)
Utf8Decode(bytes) ==
  IF bytes = <<>> THEN <<>>
  ELSE IF Head(bytes) = 195 /\ Len(bytes) > 1 /\ bytes[2] = 169
         THEN <<"U+00E9">> \o Utf8Decode(Tail(Tail(bytes)))
  ELSE IF \E i \in 1..Len(AsciiCodes) : AsciiCodes[i] = Head(bytes)
         THEN <<AsciiChars[CHOOSE i \in 1..Len(AsciiCodes) : AsciiCodes[i] = Head(bytes)]>>
              \o Utf8Decode(Tail(bytes))
  ELSE <<"U+FFFD">> \o Utf8Decode(Tail(bytes))

\* the text the broker is to receive for each value of PublishData
ExpectedText(data) ==
  CASE data = Str(<<"t", "e", "s", "t">>) -> <<"t", "e", "s", "t">>
    [] data = Str(<<"\"", "U+00E9">>) -> <<"\"", "U+00E9">>
    [] data = Obj(<<>>) -> <<"{", "}">>
    [] data = Obj(<<Field(<<"t", "e", "s", "t">>, True)>>) ->
         <<"{", "\"", "t", "e", "s", "t", "\"", ":", "t", "r", "u", "e", "}">>
    [] data = Obj(<<Field(<<"t", "e", "s", "t">>, Str(<<"w", "o", "r", "d">>))>>) ->
         <<"{", "\"", "t", "e", "s", "t", "\"", ":",
           "\"", "w", "o", "r", "d", "\"", "}">>
    [] data = Num(42) -> <<"4", "2">>

(* C23: publish(topic, data, attributes) makes exactly one publish call, on
   the named topic; the bytes it passes decode to data itself when data is
   a string and to the JSON text of data otherwise; the attributes are
   passed through unchanged; no listener record, entry, round trip or
   attached handler changes. *)
C23_PublishOnce ==
  [][\A topicName \in Topics : \A data \in PublishData :
       \A attributes \in PublishAttributes :
         publish(topicName, data, attributes) =>
           LET call == publishCalls'[Len(publishCalls')]
           IN /\ Len(publishCalls') = Len(publishCalls) + 1
              /\ SubSeq(publishCalls', 1, Len(publishCalls)) = publishCalls
              /\ call.topic = topicName
              /\ Utf8Decode(call.data) = ExpectedText(data)
              /\ (data = Str(<<"t", "e", "s", "t">>) => call.data = <<116, 101, 115, 116>>)
              /\ call.attributes = attributes
              /\ UNCHANGED <<clientId2GoogleSubNameAndClientCallback,
                             googleSubName2GoogleSubAndClientIds, currentClientId,
                             roundTrips, subscribeResult, listeners, subCalls,
                             messageVars>>]_vars

\* { test: 'word' } was published with attributes on 'Times' while a listener
\* was registered
C23_Witness ==
  /\ lastOp.op = "publish"
  /\ publishCalls =
       <<[topic |-> "Times",
          data |-> <<123, 34, 116, 101, 115, 116, 34, 58, 34, 119, 111, 114, 100, 34, 125>>,
          attributes |-> <<[author |-> "me"]>>]>>
  /\ DOMAIN clientId2GoogleSubNameAndClientCallback # {}

\* the handlers attached for an event to the handles of a name
Attached(subName, event) ==
  {l \in listeners : l.subName = subName /\ l.event = event}

(* C24: for every derived name at most one message handler and at most one
   error handler attached by the engine are live, and when the entry of the
   name records a handler pair, that pair is exactly what is attached. *)
C24_OneHandlerPairPerName ==
  \A subName \in SubNames :
    /\ \A event \in {"message", "error"} : Cardinality(Attached(subName, event)) <= 1
    /\ subName \in DOMAIN googleSubName2GoogleSubAndClientIds =>
         LET entry == googleSubName2GoogleSubAndClientIds[subName]
         IN entry.sub # Undefined =>
              /\ Attached(subName, "message")
                   = {Listener(entry.sub, "message", entry.messageHandler, subName)}
              /\ Attached(subName, "error")
                   = {Listener(entry.sub, "error", entry.errorHandler, subName)}

\* a listener record names subName
Referenced(subName) ==
  \E id \in DOMAIN clientId2GoogleSubNameAndClientCallback :
    clientId2GoogleSubNameAndClientCallback[id].subName = subName

(* C25: the entry of a derived name exists exactly when at least one
   listener id references that name or a creation round trip for that name
   is in flight. *)
C25_EntryIffReferenced ==
  \A subName \in SubNames :
    subName \in DOMAIN googleSubName2GoogleSubAndClientIds
      <=> (Referenced(subName) \/ RoundTripPending(subName))

\* how often id occurs in a list of ids
Occurrences(ids, id) == Cardinality({i \in 1..Len(ids) : ids[i] = id})

(* C26: every id that has a listener record occurs exactly once in the list
   of the entry keyed by the name of its record and in no other entry's
   list, and every id in an entry's list has a listener record; so a call
   unsubscribe(id) that deletes an entry deletes one that holds id alone. *)
C26_IdsAndRecordsAgree ==
  /\ [](\A id \in DOMAIN clientId2GoogleSubNameAndClientCallback :
          LET subName == clientId2GoogleSubNameAndClientCallback[id].subName
          IN /\ subName \in DOMAIN googleSubName2GoogleSubAndClientIds
             /\ Occurrences(googleSubName2GoogleSubAndClientIds[subName].ids, id) = 1
             /\ \A other \in DOMAIN googleSubName2GoogleSubAndClientIds \ {subName} :
                  Occurrences(googleSubName2GoogleSubAndClientIds[other].ids, id) = 0)
  /\ [](\A subName \in DOMAIN googleSubName2GoogleSubAndClientIds :
          Range(googleSubName2GoogleSubAndClientIds[subName].ids)
            \subseteq DOMAIN clientId2GoogleSubNameAndClientCallback)
  /\ [][\A subId \in IssuedIds : UnsubscribeStep(subId) =>
          \A subName \in DOMAIN googleSubName2GoogleSubAndClientIds :
            subName \notin DOMAIN googleSubName2GoogleSubAndClientIds'
              => googleSubName2GoogleSubAndClientIds[subName].ids = <<subId>>]_vars

\* unsubscribe(0) deleted the entry of 'Posts' and left the entry of 'Times',
\* which holds the ids 1 and 2
C26_Witness ==
  /\ lastOp = Op("unsubscribe", 0, "ok")
  /\ DOMAIN googleSubName2GoogleSubAndClientIds = {"Times-subscription"}
  /\ googleSubName2GoogleSubAndClientIds["Times-subscription"].ids = <<1, 2>>
  /\ DOMAIN clientId2GoogleSubNameAndClientCallback = {1, 2}

(* C27: when the consumer calls return() while the registration round trips
   of the iterator are pending, the promise of return() is fulfilled only
   after they have settled, and from then on the session is closed, none of
   the iterator's ids is registered, the entry of every one of its names
   that no other listener references is absent, and no handler remains
   attached for such a name. *)
C27_EarlyReturnLeavesNothing ==
  \A r \in 1..Len(returnCalls) :
    returnCalls[r].settled = "fulfilled" =>
      /\ allSubscribed = "resolved"
      /\ roundTrips = <<>>
      /\ ~listening
      /\ Range(subscriptionIds) \cap DOMAIN clientId2GoogleSubNameAndClientCallback = {}
      /\ \A subName \in BridgeSubNames :
           ~Referenced(subName) =>
             /\ subName \notin DOMAIN googleSubName2GoogleSubAndClientIds
             /\ Attached(subName, "message") = {}
             /\ Attached(subName, "error") = {}

\* return() was called before the two round trips settled; the handler
\* pairs of both names were attached and then detached
C27_Witness ==
  /\ returnCalls # <<>>
  /\ returnCalls[1].settled = "fulfilled"
  /\ subscriptionIds = <<0, 1>>
  /\ CallCount("on", "message", "Posts-subscription") = 1
  /\ CallCount("on", "message", "Times-subscription") = 1
  /\ CallCount("removeListener", "message", "Posts-subscription") = 1
  /\ CallCount("removeListener", "message", "Times-subscription") = 1
  /\ listeners = {}
  /\ googleSubName2GoogleSubAndClientIds = <<>>

(* C28: a delivery callback that throws during a fan-out stops nothing:
   every listener in the entry's list, those after the throwing one
   included, is called with the message, and the promise of the handler is
   fulfilled, the failure having been caught inside it. *)
C28_ThrowingCallbackIsolated ==
  [][\A m \in inflight : FanOutStep(m) =>
       /\ \A id \in Range(IdsOf(m.subName)) :
            onMessageCalls'[id] = Append(onMessageCalls[id], m.res)
       /\ dispatches'[m.message.seq] = "fulfilled"]_vars

\* the then-callback of next() call k is waiting for allSubscribed
NextTaskQueued(k) ==
  \E i \in 1..Len(thenQueue) : thenQueue[i].kind = "next" /\ thenQueue[i].call = k

\* a then-callback of one of these kinds is waiting to run
TaskQueued(kinds) == \E i \in 1..Len(thenQueue) : thenQueue[i].kind \in kinds

\* next() call k is a pending pull
PendingPull(k) == k \in Range(pullQueue)

\* a promise fulfilled with { value, done }
FulfilledWith(promise, value, done) ==
  promise.settled = "fulfilled" /\ promise.value = value /\ promise.done = done

\* next() call k was made and its promise is fulfilled
NextFulfilled(k) == k <= Len(nextCalls) /\ nextCalls[k].settled = "fulfilled"

(* C29: a next() call made before the registrations complete is not lost.
   When its callback runs on an open iterator it takes the oldest buffered
   push, or becomes a pending pull when none is buffered.  A push resolves
   the oldest pending pull with its value and done false, a return() or
   throw() resolves every pending pull with done true, no promise is
   resolved twice or changes once settled; and with the event loop running
   the queued callbacks, the call does reach that point once registration
   has completed, and a pending pull is resolved, once, when a push (for
   the oldest one) or a close is waiting. *)
C29_EarlyNextNotLost ==
  /\ [][\A k \in 1..Len(nextCalls) :
          (RanStep({"next"}) /\ lastOp'.id = k /\ listening) =>
            IF pushQueue # <<>>
              THEN /\ FulfilledWith(nextCalls'[k], <<Head(pushQueue)>>, FALSE)
                   /\ pushQueue' = Tail(pushQueue)
                   /\ pullQueue' = pullQueue
              ELSE /\ nextCalls'[k].settled = "pending"
                   /\ pullQueue' = Append(pullQueue, k)]_vars
  /\ [][(RanStep({"push"}) /\ thenQueue # <<>> /\ pullQueue # <<>>) =>
          /\ FulfilledWith(nextCalls'[Head(pullQueue)], Head(thenQueue).value, FALSE)
          /\ pullQueue' = Tail(pullQueue)
          /\ pushQueue' = pushQueue]_vars
  /\ [][(RanStep({"return", "throw", "nextReturn"}) /\ listening) =>
          /\ \A k \in Range(pullQueue) : FulfilledWith(nextCalls'[k], <<>>, TRUE)
          /\ pullQueue' = <<>>]_vars
  /\ [][\A k \in 1..Len(nextCalls) :
          /\ nextCalls'[k].resolves <= 1
          /\ nextCalls[k].settled # "pending" => nextCalls'[k] = nextCalls[k]]_vars
  /\ \A k \in 1..MaxCloseNexts :
       /\ (allSubscribed = "resolved" /\ NextTaskQueued(k))
             ~> (PendingPull(k) \/ NextFulfilled(k))
       /\ (/\ allSubscribed = "resolved"
           /\ pullQueue # <<>> /\ Head(pullQueue) = k
           /\ TaskQueued({"push", "return", "throw"}))
             ~> (NextFulfilled(k) /\ nextCalls[k].resolves = 1)
       /\ (/\ allSubscribed = "resolved"
           /\ PendingPull(k)
           /\ TaskQueued({"return", "throw"}))
             ~> (NextFulfilled(k) /\ nextCalls[k].resolves = 1)

\* the first next() call, made before registration completed, became a
\* pending pull and was resolved by the push of the message that arrived later
C29_Witness ==
  /\ lastOp = Op("push", Undefined, "ran")
  /\ nextCalls # <<>>
  /\ FulfilledWith(nextCalls[1],
                   <<commonMessageHandler([seq |-> 0, data |-> "test"])>>, FALSE)
  /\ nextCalls[1].resolves = 1
  /\ pullQueue = <<>>
  /\ pushQueue = <<>>
  /\ listening

(* C30: the transform is called exactly once for every message the broker
   delivered, however many listeners the entry holds, before and after the
   fan-out; and a fan-out (there is none when the transform fails) calls
   exactly the listeners that the entry lists when the fan-out starts,
   whatever the list was when the message arrived. *)
C30_TransformOnceListAtFanOut ==
  /\ [](DOMAIN transforms = 0..(messageCount - 1)
         /\ \A seq \in DOMAIN transforms : transforms[seq] = 1)
  /\ [][\A m \in inflight : (FanOutStep(m) /\ lastOp'.op = "fanOut") =>
          \A id \in IssuedIds :
            onMessageCalls'[id] =
              IF id \in Range(IdsOf(m.subName))
                THEN Append(onMessageCalls[id], m.res)
                ELSE onMessageCalls[id]]_vars

\* message 0 arrived while listener 0 was the only one (the one handler
\* pair ever attached has been detached); listener 0 was unsubscribed and
\* listener 1 subscribed before the fan-out, which called listener 1 alone,
\* with two listeners having come and gone and one transform call
C30_Witness ==
  /\ lastOp = Op("fanOut", 0, "ok")
  /\ transforms = <<>> @@ (0 :> 1)
  /\ CallCount("on", "message", "Posts-subscription") = 1
  /\ CallCount("removeListener", "message", "Posts-subscription") = 1
  /\ 0 \notin DOMAIN clientId2GoogleSubNameAndClientCallback
  /\ 1 \in DOMAIN subscribeResult
  /\ subscribeResult[1] = "pending"
  /\ onMessageCalls[0] = <<>>
  /\ onMessageCalls[1] = <<commonMessageHandler([seq |-> 0, data |-> "test"])>>

\* the onMessage calls made for a message, in call order
CallbacksOf(seq) ==
  SelectSeq(handlerCalls[seq], LAMBDA call : call.fn = "onMessage")

(* C31: a fan-out is one step of the engine: it appends to the calls made for
   its message one onMessage call per id of the entry, in the order of the
   entry's list, while no listener record, entry, round trip, attached
   handler or other in-flight message changes; and the callbacks called for
   one message are called in the order in which their ids were issued. *)
C31_FanOutInRegistrationOrder ==
  /\ [][\A m \in inflight : FanOutStep(m) /\ lastOp'.op = "fanOut" =>
          LET ids == IdsOf(m.subName)
          IN /\ handlerCalls' =
                  [handlerCalls EXCEPT ![m.message.seq] =
                     @ \o [i \in 1..Len(ids) |-> Call("onMessage", ids[i])]]
             /\ inflight' = inflight \ {m}
             /\ UNCHANGED <<engineVars, messageCount>>]_vars
  /\ [](\A seq \in DOMAIN handlerCalls :
          \A i, j \in 1..Len(CallbacksOf(seq)) :
            i < j => CallbacksOf(seq)[i].id < CallbacksOf(seq)[j].id)

\* a message was fanned out to the two listeners of its entry
C31_Witness ==
  /\ lastOp.op = "fanOut"
  /\ CallbacksOf(lastOp.id) = <<Call("onMessage", 0), Call("onMessage", 1)>>

\* the broker subscription of an attached error handler emits 'error'
ErrorStep == Len(consoleErrors') = Len(consoleErrors) + 1

(* C32: an error event of a broker subscription is logged and changes nothing
   else: the listener records, the entries, the attached handlers, the round
   trips, the messages in flight and the iterator's flag, queues and promises
   stay as they are; and a message arriving after an error event is fanned
   out to every listener registered on its entry. *)
C32_ErrorEventChangesNothing ==
  /\ [][ErrorStep =>
          /\ consoleErrors' = Append(consoleErrors, "UNAVAILABLE")
          /\ UNCHANGED <<clientId2GoogleSubNameAndClientCallback,
                         googleSubName2GoogleSubAndClientIds, currentClientId,
                         roundTrips, subscribeResult, listeners, subCalls,
                         publishCalls, messageVars, bridgeVars>>]_vars
  /\ [][\A m \in inflight : FanOutStep(m) /\ consoleErrors # <<>> =>
          LET ids == IdsOf(m.subName)
          IN /\ ids # <<>>
             /\ pushLog' = pushLog \o [i \in 1..Len(ids) |-> m.res]
             /\ Len(thenQueue') = Len(thenQueue) + Len(ids)]_vars

\* after an error event a message arrived, and the pending next() was
\* resolved with it on the open iterator
C32_Witness ==
  /\ consoleErrors # <<>>
  /\ listening
  /\ Len(nextCalls) = 1
  /\ FulfilledWith(nextCalls[1],
                   <<commonMessageHandler([seq |-> 0, data |-> "test"])>>, FALSE)

(* C33: whenever the entry of a name holds at least one listener id and no
   getSubscription round trip for the name is pending, a message handler and
   an error handler are attached for the name. *)
C33_ListenersHaveHandlers ==
  \A subName \in DOMAIN googleSubName2GoogleSubAndClientIds :
    (IdsOf(subName) # <<>> /\ ~RoundTripPending(subName)) =>
      /\ Attached(subName, "message") # {}
      /\ Attached(subName, "error") # {}

\* the delivery callback of listener id has been called for message seq
Called(log, seq, id) ==
  seq \in DOMAIN log /\ Call("onMessage", id) \in Range(log[seq])

(* C34: no step calls the delivery callback of a listener id that has been
   unsubscribed: its calls stay as they were, for every message, those whose
   handling began before the unsubscribe included. *)
C34_NoDeliveryAfterUnsubscribe ==
  [][\A id \in DepartedIds :
       /\ onMessageCalls'[id] = onMessageCalls[id]
       /\ \A seq \in DOMAIN handlerCalls' :
            Called(handlerCalls', seq, id) => Called(handlerCalls, seq, id)]_vars

\* the only listener ever registered was unsubscribed while a message, which
\* its handler had acknowledged and handed to the transform, was in flight;
\* the fan-out of that message has run and called nothing
C34_Witness ==
  /\ lastOp.op = "fanOut"
  /\ currentClientId = 1
  /\ DepartedIds = {0}
  /\ handlerCalls[lastOp.id] =
       <<Call("ack", Undefined), Call("commonMessageHandler", Undefined)>>
  /\ onMessageCalls[0] = <<>>

\* a return() or throw() call of the consumer has settled
CloseSettled ==
  \/ \E r \in 1..Len(returnCalls) : returnCalls[r].settled # "pending"
  \/ \E t \in 1..Len(throwCalls) : throwCalls[t].settled # "pending"

\* the iterator's listener ids that are registered in the engine
RegisteredIds ==
  Range(subscriptionIds) \cap DOMAIN clientId2GoogleSubNameAndClientCallback

(* C35: when a registration of the iterator has failed and a return() or
   throw() of the consumer has settled, none of the iterator's listener ids
   is registered in the engine. *)
C35_FailedRegistrationCleanedUp ==
  (/\ \E id \in Range(subscriptionIds) : subscribeResult[id] = "rejected"
   /\ CloseSettled)
    => RegisteredIds = {}

(* C36: when the registrations of the iterator succeeded and a return() call
   has settled, the iterator is closed, none of its listener ids is
   registered in the engine and no pull is pending, also when one of the ids
   had been unsubscribed through the engine before. *)
C36_ReturnClosesAfterOutsideUnsubscribe ==
  (/\ allSubscribed = "resolved"
   /\ \E r \in 1..Len(returnCalls) : returnCalls[r].settled # "pending")
    => /\ ~listening
       /\ RegisteredIds = {}
       /\ pullQueue = <<>>
       /\ \A k \in 1..Len(nextCalls) : Queued(k) \/ nextCalls[k].settled # "pending"

\* the positions of the calls of fn among the calls made for message seq
Positions(seq, fn) ==
  {i \in 1..Len(handlerCalls[seq]) : handlerCalls[seq][i].fn = fn}

(* C37: every message handed to a message handler has been acknowledged
   exactly once, and the acknowledgement comes before the call of the
   transform; this holds while the transform runs, after it has failed and
   after a fan-out, whatever listeners were left. *)
C37_AckOnceBeforeTransform ==
  \A seq \in 0..(messageCount - 1) :
    /\ seq \in DOMAIN handlerCalls
    /\ acks[seq] = 1
    /\ Cardinality(Positions(seq, "ack")) = 1
    /\ Positions(seq, "commonMessageHandler") # {}
    /\ \A i \in Positions(seq, "ack") :
         \A j \in Positions(seq, "commonMessageHandler") : i < j

\* the transform of one message has just failed, and another message was
\* fanned out when no listener was left: both were acknowledged and then
\* transformed, and no callback was called
C37_Witness ==
  /\ lastOp.op = "transformRejects"
  /\ \E seq \in DOMAIN dispatches :
       /\ seq # lastOp.id
       /\ dispatches[seq] = "fulfilled"
       /\ handlerCalls[seq] =
            <<Call("ack", Undefined), Call("commonMessageHandler", Undefined)>>
  /\ handlerCalls[lastOp.id] =
       <<Call("ack", Undefined), Call("commonMessageHandler", Undefined)>>
====
